---- MODULE Spec2Model ----
(***************************************************************************)
(* Model of the GitHub workflow dashboard client:                          *)
(*   - the encrypted local store   (src/lib/storage/secure-storage.ts)     *)
(*   - the API gateway             (lib/api/github, lib/api/token-validation)*)
(*   - the credential manager      (contexts/github-token-context.tsx)     *)
(*   - repository discovery        (contexts/repository-selection-context) *)
(* Asynchronous functions are split at their await points: every action    *)
(* is the synchronous run of one handler or one promise continuation.       *)
(***************************************************************************)
EXTENDS Integers, Sequences, FiniteSets, TLC

(***************************************************************************)
(* Bounds of the model.                                                     *)
(***************************************************************************)
\* number of distinct (salt, iv) pairs crypto.getRandomValues can produce:
\* pair n has salt n and iv n
MaxNonce == 1
\* number of user-initiated credential operations explored in one behaviour
MaxOps == 2

\* number of fetchRepositories runs that can be in progress at once
MaxRuns == 1

\* number of activity checks whose getWorkflowRuns request fails in one behaviour
MaxFailedProbes == 1

\* number of selection operations and restarts explored in one behaviour
MaxSelectionOps == 2

\* number of refreshRepository calls explored in one behaviour
MaxRefreshes == 2

\* length of the longest run list given to getLatestWorkflowStatuses
MaxRunListLen == 3

\* number of refreshWorkflows calls explored in one behaviour
MaxGlobalRefreshes == 2

(***************************************************************************)
(* Program constants                                                        *)
(***************************************************************************)
\* fetchRepositories: const perPage = 100
perPage == 100
\* checkWorkflowsInBackground: const batchSize = 5
batchSize == 5

Null == "null"

(***************************************************************************)
(* Values                                                                   *)
(***************************************************************************)
\* credentials the user may type; "" stands for a blank (whitespace) input
BlankToken == ""
Tokens == {"ghp_a", "ghp_b"}
RawTokens == Tokens \cup {BlankToken}

\* the login the remote service associates with a credential
LoginOf(t) == IF t = "ghp_a" THEN "alice" ELSE "bob"
Logins == {LoginOf(t) : t \in Tokens}

ThisDevice == "device"
OtherDevice == "other-device"

Nonces == 1..MaxNonce

\* STORAGE_KEYS
GITHUB_TOKEN == "github_flow_dashboard_token"
GITHUB_USER_ID == "github_flow_dashboard_user_id"
StorageKeys == {GITHUB_TOKEN, GITHUB_USER_ID}

(***************************************************************************)
(* Encrypted local store                                                    *)
(***************************************************************************)
\* getDevicePassword: the password is a digest of the device fingerprint
getDevicePassword(device) == <<"pwd", device>>

\* PBKDF2 key derivation from the device password and the salt
deriveKey(password, salt) == [password |-> password, salt |-> salt]

\* AES-GCM: the ciphertext is bound to the key and the iv it was made with
encrypt(key, iv, plaintext) == [key |-> key, iv |-> iv, plaintext |-> plaintext]

\* AES-GCM decryption: fails (Null) unless key and iv are those of encrypt
decrypt(key, iv, ciphertext) ==
  IF ciphertext.key = key /\ ciphertext.iv = iv THEN ciphertext.plaintext ELSE Null

Absent == [kind |-> "absent"]
\* an entry that JSON.parse rejects
Garbage == [kind |-> "garbage"]
\* an entry whose value is the empty string
Empty == [kind |-> "empty"]
\* an entry that parses but lacks encrypted, salt or iv
Malformed == [kind |-> "malformed"]

\* the JSON envelope written by setSecureItem (timestamp: Date.now(), not modelled as time);
\* value stands for new TextEncoder().encode(value), the UTF-8 bytes of the
\* text, a leading byte order mark included
Envelope(device, salt, iv, value) ==
  [kind |-> "envelope",
   encrypted |-> encrypt(deriveKey(getDevicePassword(device), salt), iv, value),
   salt |-> salt, iv |-> iv, timestamp |-> 0]

\* variant: the value itself is written under the key
setSecureItemRaw(salt, iv, value) == [kind |-> "raw", value |-> value]

\* variant: the envelope is encrypted under a key this device cannot derive
setSecureItemForeignKey(salt, iv, value) == Envelope(OtherDevice, salt, iv, value)

\* the value setSecureItem writes under the key
setSecureItem(salt, iv, value) == Envelope(ThisDevice, salt, iv, value)

\* U+FEFF, the byte order mark
BOM == "\\uFEFF"

\* new TextDecoder().decode(bytes): the decoder is made without ignoreBOM, so
\* a leading byte order mark is consumed and not part of the text
TextDecode(bytes) ==
  IF Len(bytes) >= Len(BOM) /\ SubSeq(bytes, 1, Len(BOM)) = BOM
    THEN SubSeq(bytes, Len(BOM) + 1, Len(bytes))
    ELSE bytes

\* the value getSecureItem resolves to for the entry it read (Null: absent or failure)
getSecureItem(entry) ==
  IF entry.kind \in {"absent", "empty"} THEN Null
  ELSE IF entry.kind # "envelope" THEN Null
  ELSE LET decryptedData == decrypt(deriveKey(getDevicePassword(ThisDevice), entry.salt),
                                    entry.iv, entry.encrypted)
       IN IF decryptedData = Null THEN Null ELSE TextDecode(decryptedData)

\* variant: the catch block leaves the unreadable entry in place
getSecureItemNeverFails(entry) == FALSE

\* getSecureItem's catch block: the entry is removed unless getItem gave
\* nothing (if (!storedData) return null) or the entry was decrypted
getSecureItemFails(entry) ==
  entry.kind \notin {"absent", "empty"} /\ getSecureItem(entry) = Null

\* variant: the error of the failing step is thrown as it is
setSecureItemErrorUnwrapped(cause) == cause

\* the message of the error setSecureItem's catch block throws
setSecureItemError(cause) == "Failed to securely store item: " \o cause

\* variant: the identity entry survives a removal
removeSecureItemKeepsUser(store, key) ==
  IF key = GITHUB_USER_ID THEN store ELSE [store EXCEPT ![key] = Absent]

\* removeSecureItem
removeSecureItem(store, key) == [store EXCEPT ![key] = Absent]

\* entries a previous session on this device may have left under a key
StoredEntries(values) ==
  {Absent, Garbage}
    \cup {Envelope(ThisDevice, n, n, v) : n \in Nonces, v \in values}
    \cup {Envelope(OtherDevice, s, i, v) : s \in {1}, i \in {1}, v \in values}

\* entries a previous session may have left under the identity key
StoredUserEntries == {Absent, Garbage} \cup {Envelope(ThisDevice, 1, 1, l) : l \in Logins}

(***************************************************************************)
(* API gateway                                                              *)
(***************************************************************************)
\* what fetch() can produce for a request
\* (json: whether response.json() resolves; message: the message member of
\* the parsed body, "" when it has none)
HttpOk == [kind |-> "ok", status |-> 200, message |-> "", json |-> TRUE]
HttpError(status, message) ==
  [kind |-> "http", status |-> status, message |-> message, json |-> TRUE]
HttpErrorUnparsable(status) ==
  [kind |-> "http", status |-> status, message |-> "", json |-> FALSE]
NetworkError == [kind |-> "network", status |-> 0, message |-> "Network error", json |-> FALSE]

ErrorResponses ==
  {HttpError(401, "Bad credentials"), HttpError(403, ""), NetworkError}
Responses == {HttpOk} \cup ErrorResponses

\* variant: the message is always the one of the parsed body
makeRequestWithoutDefault(response) ==
  IF response.kind = "ok" THEN [ok |-> TRUE, name |-> "", status |-> 200, message |-> ""]
  ELSE IF response.kind = "http"
    THEN [ok |-> FALSE, name |-> "GitHubApiError", status |-> response.status,
          message |-> response.message]
    ELSE [ok |-> FALSE, name |-> "TypeError", status |-> 0, message |-> response.message]

\* GitHubApiClient.makeRequest: whether it returns data, else the error it throws
\* (a GitHubApiError for a non-ok status, fetch's own error otherwise)
makeRequest(response) ==
  IF response.kind = "ok" THEN [ok |-> TRUE, name |-> "", status |-> 200, message |-> ""]
  ELSE IF response.kind = "http"
    THEN [ok |-> FALSE, name |-> "GitHubApiError", status |-> response.status,
          message |-> IF response.json /\ response.message # "" THEN response.message
                      ELSE "GitHub API Error: " \o ToString(response.status)]
    ELSE [ok |-> FALSE, name |-> "TypeError", status |-> 0, message |-> response.message]

\* validateGitHubToken: a blank token is refused without a request
validateGitHubToken(t, response) ==
  IF t = BlankToken THEN [isValid |-> FALSE, error |-> "Token is required"]
  ELSE IF makeRequest(response).ok THEN [isValid |-> TRUE, error |-> ""]
  ELSE [isValid |-> FALSE, error |-> makeRequest(response).message]

\* JavaScript's a || b on strings: the empty string is falsy
OrElse(a, b) == IF a # "" /\ a # Null THEN a ELSE b

(***************************************************************************)
(* State                                                                    *)
(***************************************************************************)
VARIABLES
  \* GitHubTokenProvider state (useState)
  token, isValidated, isLoading, error, userId, isSecureStorageSupported,
  \* the browser: the key-value substrate and whether crypto + storage work
  localStorage, secureStorageAvailable,
  \* the running loadStoredToken / setToken / validateToken calls
  loadCall, setCall, validateCall,
  \* RepositorySelectionProvider state (useState); its isLoading and error
  \* are named repoIsLoading and repoError here
  selectedOrganization, organizations, availableRepositories, repoIsLoading, repoError,
  \* the remote service: number of repositories each owner has
  remoteSize,
  \* the fetchRepositories calls, and the checkWorkflowsInBackground calls
  \* they launched (in launch order)
  runs, checks,
  \* the Selection Set (useState), the store entry under SELECTED_REPOSITORIES,
  \* the saveSelectedRepositories calls in flight, the loadStoredData call,
  \* the Selection Set at the last shutdown, the selection operations so far
  selectedRepositories, selectionStore, saves, selLoad, shutdownSelection, selOps,
  \* WorkflowProvider state (useState; its isLoading and error are named
  \* wfIsLoading and wfError here), the refreshRepository and refreshWorkflows
  \* calls in call order, and the clock new Date() reads
  repositoryWorkflows, wfIsLoading, wfError, lastGlobalUpdate, refreshCalls,
  refreshAllCalls, now,
  \* settings.refreshInterval (seconds), the intervals armed with setInterval
  \* (milliseconds, in arming order), whether WorkflowProvider is mounted
  refreshInterval, timers, mounted,
  \* the remote service: what it answers a request for a repository's runs with
  remote,
  \* the call of a GitHubApiClient method made directly on a client
  clientCall,
  \* the last call of setSecureItem / getSecureItem / removeSecureItem made
  \* directly on the store, and for each key the text last put under it by a
  \* resolved setSecureItem with no write or removal since
  storageCall, lastPut,
  \* number of user-initiated operations so far (bounded by MaxOps)
  ops,
  \* name of the handler or continuation that produced the current state
  lastAction

tokenVars == <<token, isValidated, isLoading, error, userId, isSecureStorageSupported,
               localStorage, secureStorageAvailable, loadCall, setCall, validateCall>>

NoValidation == [isValid |-> FALSE, error |-> ""]

\* entry / userEntry: what getSecureItem read; validation: validateGitHubToken's
\* result; requests: identity-check requests the load has issued
IdleLoadCall ==
  [pc |-> "unmounted", entry |-> Absent, storedToken |-> Null, validated |-> FALSE,
   validation |-> NoValidation, userEntry |-> Absent, requests |-> 0]

IdleSetCall ==
  [pc |-> "idle", newToken |-> Null, supported |-> FALSE, validated |-> FALSE,
   validation |-> NoValidation, login |-> Null,
   outcome |-> "none", message |-> Null, exclusive |-> FALSE]

IdleValidateCall == [pc |-> "idle", token |-> Null, result |-> "none"]

\* useState initial values; the store holds what an earlier session left
TokenInit ==
  /\ token = Null
  /\ isValidated = FALSE
  /\ isLoading = TRUE
  /\ error = Null
  /\ userId = Null
  /\ isSecureStorageSupported = FALSE
  /\ secureStorageAvailable \in BOOLEAN
  /\ localStorage \in [StorageKeys -> StoredEntries(Tokens) \cup StoredUserEntries]
  /\ localStorage[GITHUB_TOKEN] \in StoredEntries(Tokens)
  /\ localStorage[GITHUB_USER_ID] \in StoredUserEntries
  \* nothing can have been stored on a device without crypto or storage
  /\ ~secureStorageAvailable => \A k \in StorageKeys : localStorage[k] = Absent
  /\ loadCall = IdleLoadCall
  /\ setCall = IdleSetCall
  /\ validateCall = IdleValidateCall

Mounted == loadCall.pc # "unmounted"

\* a user-initiated operation may start: the provider has mounted
UserOp ==
  /\ Mounted
  /\ ops < MaxOps
  /\ ops' = ops + 1

(***************************************************************************)
(* Start-up: the two mount effects and loadStoredToken                      *)
(***************************************************************************)
\* variant: the early return of loadStoredToken does not end the loading state
MountKeepsLoading ==
  /\ loadCall.pc = "unmounted"
  /\ isSecureStorageSupported' = secureStorageAvailable
  /\ IF secureStorageAvailable /\ localStorage[GITHUB_TOKEN] # Absent
       THEN loadCall' = [loadCall EXCEPT !.pc = "reading", !.entry = localStorage[GITHUB_TOKEN]]
       ELSE loadCall' = [loadCall EXCEPT !.pc = "done"]
  /\ lastAction' = "Mount"
  /\ UNCHANGED ops
  /\ UNCHANGED <<token, isValidated, isLoading, error, userId, localStorage,
                 secureStorageAvailable, setCall, validateCall>>

\* The first commit's effects run with isSecureStorageSupported = false:
\* effect 1 sets it to isSecureStorageAvailable(), effect 2 (loadStoredToken)
\* takes the early return and sets isLoading false.  When storage is
\* available the changed dependency re-runs effect 2, which now calls
\* getSecureItem(GITHUB_TOKEN); an absent entry resolves in the same task.
Mount ==
  /\ loadCall.pc = "unmounted"
  /\ isSecureStorageSupported' = secureStorageAvailable
  /\ isLoading' = FALSE
  /\ IF secureStorageAvailable /\ localStorage[GITHUB_TOKEN] # Absent
       THEN loadCall' = [loadCall EXCEPT !.pc = "reading", !.entry = localStorage[GITHUB_TOKEN]]
       ELSE loadCall' = [loadCall EXCEPT !.pc = "done"]
  /\ lastAction' = "Mount"
  /\ UNCHANGED ops
  /\ UNCHANGED <<token, isValidated, error, userId, localStorage, secureStorageAvailable,
                 setCall, validateCall>>

\* getSecureItem(GITHUB_TOKEN) resolves
LoadStoredRead ==
  /\ loadCall.pc = "reading"
  /\ LET storedToken == getSecureItem(loadCall.entry) IN
       /\ localStorage' = IF getSecureItemFails(loadCall.entry)
                            THEN removeSecureItem(localStorage, GITHUB_TOKEN)
                            ELSE localStorage
       /\ IF storedToken # Null /\ storedToken # ""
            THEN /\ token' = storedToken
                 /\ loadCall' = [loadCall EXCEPT !.pc = "validating",
                                                 !.storedToken = storedToken,
                                                 !.requests = @ + 1]
                 /\ UNCHANGED isLoading
            ELSE /\ isLoading' = FALSE
                 /\ loadCall' = [loadCall EXCEPT !.pc = "done"]
                 /\ UNCHANGED token
  /\ lastAction' = "LoadStoredRead"
  /\ UNCHANGED ops
  /\ UNCHANGED <<isValidated, error, userId, isSecureStorageSupported,
                 secureStorageAvailable, setCall, validateCall>>

\* validateGitHubToken(storedToken) resolves
LoadStoredValidated(response) ==
  /\ loadCall.pc = "validating"
  /\ LET validation == validateGitHubToken(loadCall.storedToken, response) IN
       /\ isValidated' = validation.isValid
       /\ IF ~validation.isValid
            THEN /\ error' = "Stored token is no longer valid"
                 /\ isLoading' = FALSE
                 /\ loadCall' = [loadCall EXCEPT !.pc = "done", !.validated = TRUE,
                                                 !.validation = validation]
            ELSE /\ UNCHANGED error
                 /\ IF localStorage[GITHUB_USER_ID] # Absent
                      THEN /\ loadCall' = [loadCall EXCEPT
                                             !.pc = "readingUser", !.validated = TRUE,
                                             !.validation = validation,
                                             !.userEntry = localStorage[GITHUB_USER_ID]]
                           /\ UNCHANGED isLoading
                      ELSE /\ isLoading' = FALSE
                           /\ loadCall' = [loadCall EXCEPT !.pc = "done", !.validated = TRUE,
                                                           !.validation = validation]
  /\ lastAction' = "LoadStoredValidated"
  /\ UNCHANGED ops
  /\ UNCHANGED <<token, userId, isSecureStorageSupported, localStorage,
                 secureStorageAvailable, setCall, validateCall>>

\* getSecureItem(GITHUB_USER_ID) resolves
LoadStoredUser ==
  /\ loadCall.pc = "readingUser"
  /\ LET storedUserId == getSecureItem(loadCall.userEntry) IN
       /\ localStorage' = IF getSecureItemFails(loadCall.userEntry)
                            THEN removeSecureItem(localStorage, GITHUB_USER_ID)
                            ELSE localStorage
       /\ userId' = IF storedUserId # Null /\ storedUserId # "" THEN storedUserId ELSE userId
  /\ isLoading' = FALSE
  /\ loadCall' = [loadCall EXCEPT !.pc = "done"]
  /\ lastAction' = "LoadStoredUser"
  /\ UNCHANGED ops
  /\ UNCHANGED <<token, isValidated, error, isSecureStorageSupported,
                 secureStorageAvailable, setCall, validateCall>>

(***************************************************************************)
(* setToken                                                                 *)
(***************************************************************************)
\* variant: the catch block records the error but does not rethrow it
SetTokenRejectSwallowed(validation, message) ==
  /\ error' = message
  /\ isLoading' = FALSE
  /\ setCall' = [setCall EXCEPT !.pc = "idle", !.validated = TRUE, !.validation = validation,
                                !.outcome = "resolved", !.message = message]

\* setToken's catch and finally blocks: the error is recorded and rethrown
SetTokenReject(validation, message) ==
  /\ error' = message
  /\ isLoading' = FALSE
  /\ setCall' = [setCall EXCEPT !.pc = "idle", !.validated = TRUE, !.validation = validation,
                                !.outcome = "rejected", !.message = message]

\* setToken's normal completion, through the finally block
SetTokenResolve(login) ==
  /\ isLoading' = FALSE
  /\ setCall' = [setCall EXCEPT !.pc = "idle", !.outcome = "resolved", !.login = login]

\* setToken(newToken) up to its first await: validateGitHubToken is called
SetTokenStart(newToken) ==
  /\ UserOp
  /\ setCall.pc = "idle"
  /\ error' = Null
  /\ isLoading' = TRUE
  /\ setCall' = [pc |-> "validating", newToken |-> newToken,
                 supported |-> isSecureStorageSupported, validated |-> FALSE,
                 validation |-> NoValidation, login |-> Null,
                 outcome |-> "none", message |-> Null,
                 exclusive |-> (loadCall.pc = "done" /\ validateCall.pc = "idle")]
  /\ lastAction' = "SetTokenStart"
  /\ UNCHANGED <<token, isValidated, userId, isSecureStorageSupported, localStorage,
                 secureStorageAvailable, loadCall, validateCall>>

\* the validation resolves: throw when invalid, else persist (when storage is
\* supported) or go straight on to the identity lookup
SetTokenValidated(response) ==
  /\ setCall.pc = "validating"
  /\ LET validation == validateGitHubToken(setCall.newToken, response) IN
       IF ~validation.isValid
         THEN /\ SetTokenReject(validation, OrElse(validation.error, "Invalid GitHub token"))
              /\ UNCHANGED <<token, isValidated>>
         ELSE IF setCall.supported
           THEN /\ setCall' = [setCall EXCEPT !.pc = "storing", !.validated = TRUE,
                                              !.validation = validation]
                /\ UNCHANGED <<token, isValidated, error, isLoading>>
           ELSE /\ token' = setCall.newToken
                /\ isValidated' = TRUE
                /\ setCall' = [setCall EXCEPT !.pc = "lookup", !.validated = TRUE,
                                              !.validation = validation]
                /\ UNCHANGED <<error, isLoading>>
  /\ lastAction' = "SetTokenValidated"
  /\ UNCHANGED ops
  /\ UNCHANGED <<userId, isSecureStorageSupported, localStorage, secureStorageAvailable,
                 loadCall, validateCall>>

\* setSecureItem(GITHUB_TOKEN, newToken) settles; on success the token is
\* held and marked valid and the identity lookup (fetch /user) is issued
SetTokenStored(ok, salt, iv) ==
  /\ setCall.pc = "storing"
  /\ IF ok
       THEN /\ localStorage' = [localStorage EXCEPT
                                  ![GITHUB_TOKEN] = setSecureItem(salt, iv, setCall.newToken)]
            /\ token' = setCall.newToken
            /\ isValidated' = TRUE
            /\ setCall' = [setCall EXCEPT !.pc = "lookup"]
            /\ UNCHANGED <<error, isLoading>>
       ELSE /\ SetTokenReject(setCall.validation, setSecureItemError("OperationError"))
            /\ UNCHANGED <<localStorage, token, isValidated>>
  /\ lastAction' = "SetTokenStored"
  /\ UNCHANGED ops
  /\ UNCHANGED <<userId, isSecureStorageSupported, secureStorageAvailable,
                 loadCall, validateCall>>

\* the identity lookup settles; login is Null when the response is not ok,
\* carries no login, or the fetch failed
SetTokenLookup(login) ==
  /\ setCall.pc = "lookup"
  /\ IF login # Null
       THEN /\ userId' = login
            /\ IF setCall.supported
                 THEN /\ setCall' = [setCall EXCEPT !.pc = "storingUser", !.login = login]
                      /\ UNCHANGED isLoading
                 ELSE SetTokenResolve(login)
       ELSE /\ UNCHANGED userId
            /\ SetTokenResolve(Null)
  /\ lastAction' = "SetTokenLookup"
  /\ UNCHANGED ops
  /\ UNCHANGED <<token, isValidated, error, isSecureStorageSupported, localStorage,
                 secureStorageAvailable, loadCall, validateCall>>

\* setSecureItem(GITHUB_USER_ID, login) settles; a failure is only logged
SetTokenUserStored(ok, salt, iv) ==
  /\ setCall.pc = "storingUser"
  /\ localStorage' = IF ok
                       THEN [localStorage EXCEPT
                               ![GITHUB_USER_ID] = setSecureItem(salt, iv, setCall.login)]
                       ELSE localStorage
  /\ SetTokenResolve(setCall.login)
  /\ lastAction' = "SetTokenUserStored"
  /\ UNCHANGED ops
  /\ UNCHANGED <<token, isValidated, error, userId, isSecureStorageSupported,
                 secureStorageAvailable, loadCall, validateCall>>

(***************************************************************************)
(* removeToken, validateToken                                               *)
(***************************************************************************)
\* removeSecureItem never throws and its awaits resolve in the same task
RemoveToken ==
  /\ UserOp
  /\ error' = Null
  /\ localStorage' = IF isSecureStorageSupported
                       THEN removeSecureItem(removeSecureItem(localStorage, GITHUB_TOKEN),
                                             GITHUB_USER_ID)
                       ELSE localStorage
  /\ token' = Null
  /\ userId' = Null
  /\ isValidated' = FALSE
  /\ setCall' = [setCall EXCEPT !.exclusive = FALSE]
  /\ lastAction' = "RemoveToken"
  /\ UNCHANGED <<isLoading, isSecureStorageSupported, secureStorageAvailable,
                 loadCall, validateCall>>

\* validateToken() up to its first await
ValidateTokenStart ==
  /\ UserOp
  /\ validateCall.pc = "idle"
  /\ IF token = Null \/ token = ""
       THEN /\ isValidated' = FALSE
            /\ validateCall' = [validateCall EXCEPT !.result = "false"]
            /\ UNCHANGED <<error, isLoading>>
       ELSE /\ error' = Null
            /\ isLoading' = TRUE
            /\ validateCall' = [pc |-> "validating", token |-> token, result |-> "none"]
            /\ UNCHANGED isValidated
  /\ setCall' = [setCall EXCEPT !.exclusive = FALSE]
  /\ lastAction' = "ValidateTokenStart"
  /\ UNCHANGED <<token, userId, isSecureStorageSupported, localStorage,
                 secureStorageAvailable, loadCall>>

\* variant: validateToken marks the credential valid whatever the check says
ValidateTokenDoneTrusting(response) ==
  /\ validateCall.pc = "validating"
  /\ LET validation == validateGitHubToken(validateCall.token, response) IN
       /\ isValidated' = TRUE
       /\ error' = IF validation.isValid THEN error
                   ELSE OrElse(validation.error, "Token validation failed")
       /\ validateCall' = [validateCall EXCEPT
                             !.pc = "idle",
                             !.result = IF validation.isValid THEN "true" ELSE "false"]
  /\ isLoading' = FALSE
  /\ lastAction' = "ValidateTokenDone"
  /\ UNCHANGED ops
  /\ UNCHANGED <<token, userId, isSecureStorageSupported, localStorage,
                 secureStorageAvailable, loadCall, setCall>>

\* the validation resolves
ValidateTokenDone(response) ==
  /\ validateCall.pc = "validating"
  /\ LET validation == validateGitHubToken(validateCall.token, response) IN
       /\ isValidated' = validation.isValid
       /\ error' = IF validation.isValid THEN error
                   ELSE OrElse(validation.error, "Token validation failed")
       /\ validateCall' = [validateCall EXCEPT
                             !.pc = "idle",
                             !.result = IF validation.isValid THEN "true" ELSE "false"]
  /\ isLoading' = FALSE
  /\ lastAction' = "ValidateTokenDone"
  /\ UNCHANGED ops
  /\ UNCHANGED <<token, userId, isSecureStorageSupported, localStorage,
                 secureStorageAvailable, loadCall, setCall>>

(***************************************************************************)
(* Repository discovery                                                     *)
(***************************************************************************)
discoveryVars == <<selectedOrganization, organizations, availableRepositories,
                   repoIsLoading, repoError, remoteSize, runs, checks>>

OrgOwner == "acme"
Owners == Logins \cup {OrgOwner}

\* the i-th repository of an owner's remote collection
RemoteRepo(owner, i) ==
  [id |-> (IF owner = OrgOwner THEN 1000 ELSE 0) + i, owner |-> owner,
   archived |-> (i % 7 = 3), disabled |-> (i % 7 = 5)]

Min(a, b) == IF a < b THEN a ELSE b
Max(a, b) == IF a > b THEN a ELSE b

\* the page the remote service returns for ?per_page=per&page=page
RemotePage(owner, size, per, page) ==
  [k \in 1..Max(0, Min(per, size - (page - 1) * per)) |->
     RemoteRepo(owner, (page - 1) * per + k)]

\* organizations.find((org) => org.login === targetOwner)?.type === "User"
IsUser(orgs, targetOwner) ==
  \E k \in 1..Len(orgs) : orgs[k].login = targetOwner /\ orgs[k].type = "User"

\* variant: archived repositories pass the filter
ActiveReposKeepingArchived(allRepositories) ==
  LET keep(repo) == ~repo.disabled
      active == SelectSeq(allRepositories, keep)
  IN [k \in 1..Len(active) |->
        [id |-> active[k].id, owner |-> active[k].owner,
         workflowStatus |-> "unknown", workflowCount |-> 0]]

\* .filter(!archived && !disabled).map(workflowStatus: "unknown")
ActiveRepos(allRepositories) ==
  LET keep(repo) == ~repo.archived /\ ~repo.disabled
      active == SelectSeq(allRepositories, keep)
  IN [k \in 1..Len(active) |->
        [id |-> active[k].id, owner |-> active[k].owner,
         workflowStatus |-> "unknown", workflowCount |-> 0]]

\* variant: a batch takes one entry more than batchSize
BatchIdsOneMore(repositories, i) ==
  {repositories[k].id : k \in (i + 1)..Min(i + batchSize + 1, Len(repositories))}

\* ids of repositories.slice(i, i + batchSize)
BatchIds(repositories, i) ==
  {repositories[k].id : k \in (i + 1)..Min(i + batchSize, Len(repositories))}

\* checkWorkflowsInBackground's first update: the batch's unknown entries become checking
MarkChecking(current, ids) ==
  [k \in 1..Len(current) |->
     IF current[k].id \in ids /\ current[k].workflowStatus = "unknown"
       THEN [current[k] EXCEPT !.workflowStatus = "checking"]
       ELSE current[k]]

\* variant: the loop stops on an empty page only
LastPageOnlyWhenEmpty(pageRepositories) == Len(pageRepositories) = 0

\* variant: the loop stops after any page that is not over-full
LastPageUnlessOverfull(pageRepositories) == Len(pageRepositories) <= perPage

\* the paging loop's two break conditions: an empty page, or a short one
LastPage(pageRepositories) ==
  Len(pageRepositories) = 0 \/ Len(pageRepositories) < perPage

NoError == [ok |-> TRUE, name |-> "", status |-> 200, message |-> ""]

\* pages: the page numbers requested so far (in order); lengths: the length
\* of every page that has resolved; inFlight: page requests not yet settled;
\* seq: the position of the call among the user's operations
IdleRun ==
  [pc |-> "idle", seq |-> 0, token |-> Null, targetOwner |-> Null, isUser |-> FALSE,
   page |-> 0, allRepositories |-> <<>>, pages |-> <<>>, lengths |-> <<>>,
   inFlight |-> {}, failure |-> NoError, published |-> <<>>]

\* checkWorkflowsInBackground(repositories, apiClient) at its first await:
\* the probes of the batch at offset i = 0 are pending.  pending: probes
\* waiting for getWorkflowRuns; fallback: probes waiting for getWorkflows;
\* batches: the id sets probed so far, in order; committed: batches whose
\* results were written; seq: the discovery that launched the run; failed:
\* the ids whose getWorkflowRuns request failed; lost: those whose
\* getWorkflows request failed as well
StartCheck(repositories, apiToken, seq) ==
  [pc |-> "probing", seq |-> seq, token |-> apiToken, repositories |-> repositories,
   i |-> 0, pending |-> BatchIds(repositories, 0), fallback |-> {},
   batchResults |-> {}, batches |-> <<BatchIds(repositories, 0)>>, committed |-> 0,
   failed |-> {}, lost |-> {}]

RunIds == 1..MaxRuns

\* no discovery has run; the organization list may or may not be loaded
DiscoveryInit(sizes) ==
  /\ selectedOrganization \in {Null, OrgOwner}
  /\ organizations \in
       {<<>>,
        <<[login |-> "alice", type |-> "User"], [login |-> OrgOwner, type |-> "Organization"]>>}
  /\ availableRepositories = <<>>
  /\ repoIsLoading = FALSE
  /\ repoError = Null
  /\ remoteSize \in sizes
  /\ runs = [r \in RunIds |-> IdleRun]
  /\ checks = <<>>

\* fetchRepositories(owner) up to its first await; owner = Null: no argument
FetchRepositoriesStart(r, owner) ==
  /\ Mounted
  /\ ops < MaxOps
  /\ ops' = ops + 1
  /\ runs[r].pc # "fetching"
  /\ \A q \in RunIds : q < r => runs[q].pc = "fetching"
  /\ LET targetOwner == OrElse(owner, OrElse(selectedOrganization, userId)) IN
       IF token = Null \/ token = "" \/ ~isValidated
         THEN /\ repoError' = "Valid GitHub token required"
              /\ UNCHANGED <<repoIsLoading, runs>>
         ELSE IF targetOwner = Null \/ targetOwner = ""
           THEN /\ repoError' = "No organization selected"
                /\ UNCHANGED <<repoIsLoading, runs>>
           ELSE /\ repoIsLoading' = TRUE
                /\ repoError' = Null
                /\ runs' = [runs EXCEPT ![r] =
                     [IdleRun EXCEPT !.pc = "fetching", !.seq = ops + 1, !.token = token,
                                     !.targetOwner = targetOwner,
                                     !.isUser = IsUser(organizations, targetOwner),
                                     !.page = 1, !.pages = <<1>>, !.inFlight = {1}]]
  /\ lastAction' = "FetchRepositoriesStart"
  /\ UNCHANGED <<selectedOrganization, organizations, availableRepositories, remoteSize,
                 checks>>

\* variant: the pages collected before the failure are published
FetchFailedPublishingPartial(r, result) ==
  /\ repoError' = result.message
  /\ repoIsLoading' = FALSE
  /\ runs' = [runs EXCEPT ![r] = [@ EXCEPT !.pc = "failed", !.failure = result,
                                           !.inFlight = @ \ {runs[r].page}]]
  /\ availableRepositories' = ActiveRepos(runs[r].allRepositories)
  /\ UNCHANGED checks

\* fetchRepositories' catch and finally blocks after a failed page request:
\* the message is surfaced, loading ends, the published list is left alone
FetchFailed(r, result) ==
  /\ repoError' = result.message
  /\ repoIsLoading' = FALSE
  /\ runs' = [runs EXCEPT ![r] = [@ EXCEPT !.pc = "failed", !.failure = result,
                                           !.inFlight = @ \ {runs[r].page}]]
  /\ UNCHANGED <<availableRepositories, checks>>

\* after the loop: the collected pages are filtered and published, then
\* checkWorkflowsInBackground runs up to its first await (batch 0 is marked
\* checking and its probes are issued); published: the list handed to
\* setAvailableRepositories
FetchPublish(r, allRepositories, pageLength) ==
  LET activeRepos == ActiveRepos(allRepositories) IN
    /\ availableRepositories' = MarkChecking(activeRepos, BatchIds(activeRepos, 0))
    /\ repoError' = IF Len(activeRepos) = 0
                      THEN "No repositories found for this organization."
                      ELSE repoError
    /\ repoIsLoading' = FALSE
    /\ checks' = IF Len(activeRepos) > 0
                   THEN Append(checks, StartCheck(activeRepos, runs[r].token, runs[r].seq))
                   ELSE checks
    /\ runs' = [runs EXCEPT ![r] =
                 [@ EXCEPT !.pc = "done",
                           !.allRepositories = allRepositories,
                           !.lengths = Append(@, pageLength),
                           !.inFlight = @ \ {runs[r].page},
                           !.published = activeRepos]]

\* a full page: page++ and the next getRepositories request
FetchNextPage(r, allRepositories, pageLength) ==
  /\ runs' = [runs EXCEPT ![r] =
               [@ EXCEPT !.page = @ + 1,
                         !.allRepositories = allRepositories,
                         !.lengths = Append(@, pageLength),
                         !.pages = Append(@, runs[r].page + 1),
                         !.inFlight = (@ \ {runs[r].page}) \cup {runs[r].page + 1}]]
  /\ UNCHANGED <<availableRepositories, repoError, repoIsLoading, checks>>

\* getRepositories(targetOwner, isUser, {per_page, page}) settles for page
\* runs[r].page: on an error the catch and finally blocks run; on a full page
\* the next page is requested; on a short or empty page the list is filtered
\* and published and checkWorkflowsInBackground runs up to its first await
FetchPageSettled(r, response) ==
  /\ runs[r].pc = "fetching"
  /\ runs[r].page \in runs[r].inFlight
  /\ LET run == runs[r]
         result == makeRequest(response)
         pageRepositories == RemotePage(run.targetOwner, remoteSize, perPage, run.page)
         allRepositories == run.allRepositories \o pageRepositories
     IN
       IF ~result.ok
         THEN FetchFailed(r, result)
         ELSE IF LastPage(pageRepositories)
           THEN FetchPublish(r, allRepositories, Len(pageRepositories))
           ELSE FetchNextPage(r, allRepositories, Len(pageRepositories))
  /\ lastAction' = "FetchPageSettled"
  /\ UNCHANGED <<selectedOrganization, organizations, remoteSize, ops>>

(***************************************************************************)
(* Enrichment: checkWorkflowsInBackground and hasRecentWorkflowActivity     *)
(***************************************************************************)
\* what GET /repos/{owner}/{repo}/actions/runs?per_page=1 holds for a
\* repository: no run, a run within the last daysBack days, or an older one
RemoteLatestRun(id) ==
  IF id % 3 = 0 THEN "none" ELSE IF id % 3 = 1 THEN "recent" ELSE "old"

\* number of workflows GET /repos/{owner}/{repo}/actions/workflows lists
RemoteWorkflowCount(id) == id % 2

\* hasRecentWorkflowActivity once getWorkflowRuns has resolved
ActivityFromRuns(id) ==
  IF RemoteLatestRun(id) = "none" THEN [hasActivity |-> FALSE, totalRuns |-> 0]
  ELSE [hasActivity |-> (RemoteLatestRun(id) = "recent"), totalRuns |-> 1]

\* hasRecentWorkflowActivity's fallback once getWorkflows has settled
ActivityFromWorkflows(id, result) ==
  IF result.ok THEN [hasActivity |-> (RemoteWorkflowCount(id) > 0), totalRuns |-> 0]
  ELSE [hasActivity |-> FALSE, totalRuns |-> 0]

\* the batch promise's result for a resolved activity check
BatchResult(id, activityCheck) ==
  [id |-> id,
   status |-> IF activityCheck.hasActivity THEN "has-workflows" ELSE "no-workflows",
   count |-> activityCheck.totalRuns]

\* variant: a batch result is written to entries still unknown only
ApplyResultsToUnknown(current, batchResults) ==
  [k \in 1..Len(current) |->
     IF current[k].workflowStatus = "unknown"
          /\ \E res \in batchResults : res.id = current[k].id
       THEN LET res == CHOOSE res \in batchResults : res.id = current[k].id IN
              [current[k] EXCEPT !.workflowStatus = res.status, !.workflowCount = res.count]
       ELSE current[k]]

\* checkWorkflowsInBackground's second update: entries with a batch result
\* take its status and count
ApplyResults(current, batchResults) ==
  [k \in 1..Len(current) |->
     IF \E res \in batchResults : res.id = current[k].id
       THEN LET res == CHOOSE res \in batchResults : res.id = current[k].id IN
              [current[k] EXCEPT !.workflowStatus = res.status, !.workflowCount = res.count]
       ELSE current[k]]

\* a probe of run c delivers its result; when it is the batch's last one
\* Promise.all resolves: the results are written and the run pauses before
\* the next batch or ends
ProbeResolved(c, id, activityCheck, bothFailed) ==
  LET check == checks[c]
      batchResults == check.batchResults \cup {BatchResult(id, activityCheck)}
      settled == [check EXCEPT !.pending = @ \ {id}, !.fallback = @ \ {id},
                               !.batchResults = batchResults,
                               !.lost = IF bothFailed THEN @ \cup {id} ELSE @]
  IN IF settled.pending = {} /\ settled.fallback = {}
       THEN /\ availableRepositories' = ApplyResults(availableRepositories, batchResults)
            /\ checks' = [checks EXCEPT ![c] =
                 [settled EXCEPT !.committed = @ + 1,
                                 !.pc = IF check.i + batchSize < Len(check.repositories)
                                          THEN "pause" ELSE "done"]]
       ELSE /\ checks' = [checks EXCEPT ![c] = settled]
            /\ UNCHANGED availableRepositories

\* number of activity checks whose first request has failed so far
RECURSIVE FailedProbes(_)
FailedProbes(cs) ==
  IF cs = <<>> THEN 0 ELSE Cardinality(Head(cs).failed) + FailedProbes(Tail(cs))

\* getWorkflowRuns settles for the probe of repository id: on an error
\* hasRecentWorkflowActivity falls back to getWorkflows
ProbeRunsSettled(c, id, response) ==
  /\ c \in 1..Len(checks)
  /\ checks[c].pc = "probing"
  /\ id \in checks[c].pending
  /\ IF makeRequest(response).ok
       THEN ProbeResolved(c, id, ActivityFromRuns(id), FALSE)
       ELSE /\ FailedProbes(checks) < MaxFailedProbes
            /\ checks' = [checks EXCEPT ![c] =
                 [@ EXCEPT !.pending = @ \ {id}, !.fallback = @ \cup {id},
                           !.failed = @ \cup {id}]]
            /\ UNCHANGED availableRepositories
  /\ lastAction' = "ProbeRunsSettled"
  /\ UNCHANGED <<selectedOrganization, organizations, repoIsLoading, repoError,
                 remoteSize, runs, ops>>

\* getWorkflows settles for the probe of repository id
ProbeWorkflowsSettled(c, id, response) ==
  /\ c \in 1..Len(checks)
  /\ checks[c].pc = "probing"
  /\ id \in checks[c].fallback
  /\ ProbeResolved(c, id, ActivityFromWorkflows(id, makeRequest(response)),
                   ~makeRequest(response).ok)
  /\ lastAction' = "ProbeWorkflowsSettled"
  /\ UNCHANGED <<selectedOrganization, organizations, repoIsLoading, repoError,
                 remoteSize, runs, ops>>

\* the 200 ms pause between batches is over: i += batchSize, the next batch
\* is marked checking and its probes are issued
BatchDelayElapsed(c) ==
  /\ c \in 1..Len(checks)
  /\ checks[c].pc = "pause"
  /\ LET i == checks[c].i + batchSize
         ids == BatchIds(checks[c].repositories, i)
     IN /\ availableRepositories' = MarkChecking(availableRepositories, ids)
        /\ checks' = [checks EXCEPT ![c] =
             [@ EXCEPT !.pc = "probing", !.i = i, !.pending = ids, !.fallback = {},
                       !.batchResults = {}, !.batches = Append(@, ids)]]
  /\ lastAction' = "BatchDelayElapsed"
  /\ UNCHANGED <<selectedOrganization, organizations, repoIsLoading, repoError,
                 remoteSize, runs, ops>>

(***************************************************************************)
(* Selection Set: toggleRepository, select-all, clearSelection, the save   *)
(* effect and loadStoredData                                                *)
(***************************************************************************)
selectionVars == <<selectedRepositories, selectionStore, saves, selLoad,
                   shutdownSelection, selOps>>

WorkflowStatuses == {"unknown", "checking", "has-workflows", "no-workflows", "error"}

\* lastOrg: the entry under github-flow-dashboard-last-org
IdleSelLoad == [pc |-> "done", lastOrg |-> Null, restarted |-> FALSE]

\* no selection, nothing stored, loadStoredData over
SelectionIdle ==
  /\ selectedRepositories = <<>>
  /\ selectionStore = Absent
  /\ saves = {}
  /\ selLoad = IdleSelLoad
  /\ shutdownSelection = <<>>
  /\ selOps = 0

\* the save effect after selectedRepositories was set to next: an empty
\* selection is not written
SaveEffect(next) ==
  saves' = IF Len(next) > 0 THEN saves \cup {next} ELSE saves

\* current.some((repo) => repo.id === repository.id)
IsSelected(current, id) == \E k \in 1..Len(current) : current[k].id = id

\* current.filter((repo) => repo.id !== id)
WithoutIds(current, ids) ==
  LET keep(repo) == repo.id \notin ids IN SelectSeq(current, keep)

\* a selection operation may start
SelectionOp ==
  /\ selLoad.pc = "done"
  /\ selOps < MaxSelectionOps
  /\ selOps' = selOps + 1

\* the classification the argument of toggleRepository carries
Classified(repository) ==
  repository.workflowStatus \in {"has-workflows", "no-workflows"}

\* history: the call, and whether its argument was classified
ToggleLabel(repository) ==
  IF Classified(repository) THEN "ToggleRepository" ELSE "ToggleRepositoryUnclassified"

\* toggleRepository without its early return
ToggleRepositoryUnguarded(repository) ==
  /\ SelectionOp
  /\ LET next == IF IsSelected(selectedRepositories, repository.id)
                   THEN WithoutIds(selectedRepositories, {repository.id})
                   ELSE Append(selectedRepositories, repository)
     IN /\ selectedRepositories' = next
        /\ SaveEffect(next)
  /\ lastAction' = ToggleLabel(repository)
  /\ UNCHANGED <<selectionStore, selLoad, shutdownSelection>>

\* toggleRepository(repository)
ToggleRepository(repository) ==
  /\ SelectionOp
  /\ IF repository.workflowStatus # "has-workflows"
        /\ repository.workflowStatus # "no-workflows"
       THEN UNCHANGED <<selectedRepositories, saves>>
       ELSE LET next == IF IsSelected(selectedRepositories, repository.id)
                          THEN WithoutIds(selectedRepositories, {repository.id})
                          ELSE Append(selectedRepositories, repository)
            IN /\ selectedRepositories' = next
               /\ SaveEffect(next)
  /\ lastAction' = ToggleLabel(repository)
  /\ UNCHANGED <<selectionStore, selLoad, shutdownSelection>>

\* getWorkflowStatusInfo(status).selectable
Selectable(repo) == repo.workflowStatus = "has-workflows"

\* handleSelectAll (no name filter): when every selectable entry is selected
\* they are deselected, otherwise the missing ones are appended through
\* setSelectedRepositories
SelectAll ==
  /\ SelectionOp
  /\ LET selectableRepos == SelectSeq(availableRepositories, Selectable)
         isSelected(repo) == IsSelected(selectedRepositories, repo.id)
         notSelected(repo) == ~IsSelected(selectedRepositories, repo.id)
         next == IF Len(selectableRepos) > 0
                    /\ Len(SelectSeq(selectableRepos, isSelected)) = Len(selectableRepos)
                   THEN WithoutIds(selectedRepositories,
                                   {selectableRepos[k].id : k \in 1..Len(selectableRepos)})
                   ELSE selectedRepositories \o SelectSeq(selectableRepos, notSelected)
     IN /\ selectedRepositories' = next
        /\ SaveEffect(next)
  /\ lastAction' = "SelectAll"
  /\ UNCHANGED <<selectionStore, selLoad, shutdownSelection>>

\* clearSelection
ClearSelection ==
  /\ SelectionOp
  /\ selectedRepositories' = <<>>
  /\ SaveEffect(<<>>)
  /\ lastAction' = "ClearSelection"
  /\ UNCHANGED <<selectionStore, selLoad, shutdownSelection>>

\* setSecureItem(SELECTED_REPOSITORIES, JSON.stringify(value)) settles; a
\* failure is only logged
SaveSettled(value, ok, n) ==
  /\ value \in saves
  /\ saves' = saves \ {value}
  /\ selectionStore' = IF ok THEN setSecureItem(n, n, value) ELSE selectionStore
  /\ lastAction' = "SaveSettled"
  /\ UNCHANGED <<selectedRepositories, selLoad, shutdownSelection, selOps>>

\* whether getSecureItem can decrypt the entry
Readable(entry) ==
  /\ entry.kind = "envelope"
  /\ entry.encrypted.key = deriveKey(getDevicePassword(ThisDevice), entry.salt)
  /\ entry.encrypted.iv = entry.iv

\* repositories.map((repo) => ({...repo, workflowStatus: "unknown"}))
AsUnknown(repositories) ==
  [k \in 1..Len(repositories) |-> [repositories[k] EXCEPT !.workflowStatus = "unknown"]]

\* loadStoredData: the stored selection is restored (and the save effect
\* runs on it), an unreadable entry is removed by getSecureItem; the last
\* organization, else the user's own login, becomes the selected one
LoadStoredData ==
  /\ selLoad.pc = "pending"
  /\ IF Readable(selectionStore)
       THEN LET next == AsUnknown(selectionStore.encrypted.plaintext) IN
              /\ selectedRepositories' = next
              /\ SaveEffect(next)
              /\ UNCHANGED selectionStore
       ELSE /\ selectionStore' = Absent
            /\ UNCHANGED <<selectedRepositories, saves>>
  /\ selectedOrganization' =
       IF selLoad.lastOrg # Null THEN selLoad.lastOrg
       ELSE IF userId # Null /\ userId # "" THEN userId
       ELSE selectedOrganization
  /\ selLoad' = [selLoad EXCEPT !.pc = "done"]
  /\ lastAction' = "LoadStoredData"
  /\ UNCHANGED <<shutdownSelection, selOps>>

\* the page is closed once every save has settled and opened again: the
\* store is kept, the selection provider starts from its initial state
\* (the organization list is taken as loaded again), requests are dropped
Restart ==
  /\ SelectionOp
  /\ saves = {}
  /\ shutdownSelection' = selectedRepositories
  /\ selectedRepositories' = <<>>
  /\ selLoad' = [selLoad EXCEPT !.pc = "pending", !.restarted = TRUE]
  /\ selectedOrganization' = Null
  /\ availableRepositories' = <<>>
  /\ repoIsLoading' = FALSE
  /\ repoError' = Null
  /\ runs' = [r \in RunIds |-> IdleRun]
  /\ checks' = <<>>
  /\ lastAction' = "Restart"
  /\ UNCHANGED <<selectionStore, saves, organizations, remoteSize>>

(***************************************************************************)
(* WorkflowProvider: the watched set with each resource's latest runs       *)
(***************************************************************************)
workflowVars == <<repositoryWorkflows, wfIsLoading, wfError, lastGlobalUpdate,
                  refreshCalls, refreshAllCalls, now, refreshInterval, timers, mounted,
                  remote>>

\* DEFAULT_SETTINGS.refreshInterval
DefaultRefreshInterval == 120

\* useState initial values; no call has been made, the clock reads 1
WorkflowIdle ==
  /\ repositoryWorkflows = <<>>
  /\ wfIsLoading = FALSE
  /\ wfError = Null
  /\ lastGlobalUpdate = 0
  /\ refreshCalls = <<>>
  /\ refreshAllCalls = <<>>
  /\ now = 1
  /\ refreshInterval = DefaultRefreshInterval
  /\ timers = <<>>
  /\ mounted = TRUE
  /\ remote = <<>>

\* a workflow run as GET /repos/{owner}/{repo}/actions/runs lists it
WorkflowRun(id, workflowId, createdAt) ==
  [id |-> id, workflow_id |-> workflowId, created_at |-> createdAt]

NoRun == WorkflowRun(0, 0, 0)

WorkflowIds == 1..2

\* the run lists the remote service answers with: none, or the runs of
\* two workflows, newest first
RunLists ==
  {<<>>, <<WorkflowRun(3, 1, 2), WorkflowRun(2, 2, 1), WorkflowRun(1, 1, 1)>>}

\* the responses explored for a request of WorkflowProvider
WorkflowResponses == {HttpOk, HttpError(403, "")}

\* variant: the first run listed for a workflow is kept
KeepFirstByWorkflow(workflowRuns, k, latestByWorkflow) ==
  [w \in DOMAIN latestByWorkflow |->
     IF \E j \in k..Len(workflowRuns) : workflowRuns[j].workflow_id = w
       THEN workflowRuns[CHOOSE j \in k..Len(workflowRuns) :
                           /\ workflowRuns[j].workflow_id = w
                           /\ \A i \in k..(j - 1) : workflowRuns[i].workflow_id # w]
       ELSE latestByWorkflow[w]]

\* the loop of getLatestWorkflowStatuses from run k on: a run replaces the one
\* kept for its workflow when none is kept or it was created later
RECURSIVE LatestByWorkflow(_, _, _)
LatestByWorkflow(workflowRuns, k, latestByWorkflow) ==
  IF k > Len(workflowRuns) THEN latestByWorkflow
  ELSE LET run == workflowRuns[k]
           kept == latestByWorkflow[run.workflow_id]
       IN LatestByWorkflow(workflowRuns, k + 1,
            IF kept = NoRun \/ run.created_at > kept.created_at
              THEN [latestByWorkflow EXCEPT ![run.workflow_id] = run]
              ELSE latestByWorkflow)

\* Object.values(await getLatestWorkflowStatuses(...)): the kept runs in
\* ascending order of workflow id
getLatestWorkflowStatuses(workflowRuns) ==
  LET latestByWorkflow == LatestByWorkflow(workflowRuns, 1, [w \in WorkflowIds |-> NoRun])
      kept(run) == run # NoRun
  IN SelectSeq([w \in WorkflowIds |-> latestByWorkflow[w]], kept)

\* lastUpdated 0 stands for null
NewEntry(repository) ==
  [repository |-> repository, workflows |-> <<>>, isLoading |-> FALSE,
   error |-> Null, lastUpdated |-> 0]

\* variant: every entry is created anew
TrackSelectionAnew(current, selected) ==
  [k \in 1..Len(selected) |-> NewEntry(selected[k])]

\* the effect on selectedRepositories: an entry per selected repository, the
\* first tracked entry of the same id being kept
TrackSelection(current, selected) ==
  [k \in 1..Len(selected) |->
     IF \E j \in 1..Len(current) : current[j].repository.id = selected[k].id
       THEN LET j == CHOOSE j \in 1..Len(current) :
                       /\ current[j].repository.id = selected[k].id
                       /\ \A i \in 1..(j - 1) : current[i].repository.id # selected[k].id
            IN [current[j] EXCEPT !.repository = selected[k]]
       ELSE NewEntry(selected[k])]

IsTracked(current, repositoryId) ==
  \E k \in 1..Len(current) : current[k].repository.id = repositoryId

\* repositoryWorkflows.some((rw) => rw.workflows.length === 0 && !rw.isLoading && !rw.error)
HasUnloadedRepos(current) ==
  \E k \in 1..Len(current) :
    /\ current[k].workflows = <<>>
    /\ ~current[k].isLoading
    /\ current[k].error = Null

\* variant: a failed request resolves like one that found no run
RefreshResultWithoutError(response, workflowRuns) ==
  [workflows |-> IF makeRequest(response).ok THEN getLatestWorkflowStatuses(workflowRuns)
                 ELSE <<>>,
   error |-> Null]

\* what refreshWorkflows' promise for one entry resolves to
RefreshResult(response, workflowRuns) ==
  IF makeRequest(response).ok
    THEN [workflows |-> getLatestWorkflowStatuses(workflowRuns), error |-> Null]
    ELSE [workflows |-> <<>>, error |-> makeRequest(response).message]

\* the repositories a session can watch
WatchedRepo(i) ==
  [id |-> i, owner |-> "alice", workflowStatus |-> "has-workflows", workflowCount |-> 1]

WatchedIds == 1..2

\* what the remote service can answer a request for a repository's runs with
Answer(response, workflowRuns) ==
  [response |-> response,
   workflowRuns |-> IF makeRequest(response).ok THEN workflowRuns ELSE <<>>]

Answers ==
  {Answer(response, workflowRuns) : response \in WorkflowResponses, workflowRuns \in RunLists}

\* the ids of the entries a call closes over
TrackedIds(current) == {current[k].repository.id : k \in 1..Len(current)}

\* stands for the result of a promise that has not resolved
PendingResult == [workflows |-> <<>>, error |-> "pending"]

\* a refreshWorkflows call over the entries it closed over: a request per
\* entry is pending; results maps each id to what its promise resolved to
StartRefreshAll(current) ==
  [pc |-> "fetching", ids |-> TrackedIds(current), pending |-> TrackedIds(current),
   results |-> [id \in TrackedIds(current) |-> PendingResult]]

\* a refreshWorkflows call that has settled
SettledRefreshAll == [pc |-> "done", ids |-> {}, pending |-> {}, results |-> <<>>]

\* variant: the effect has no cleanup
ClearIntervalSkipped(armed) == armed

\* clearInterval by the cleanup of the effect run that armed the last timer
ClearInterval(armed) ==
  IF armed = <<>> THEN armed ELSE SubSeq(armed, 1, Len(armed) - 1)

\* the auto-refresh effect, run again (after the cleanup of its last run)
\* when refreshWorkflows, the interval or the number of entries changes
AutoRefreshEffect(length, interval) ==
  timers' = IF interval * 1000 <= 0 \/ length = 0
              THEN ClearInterval(timers)
              ELSE Append(ClearInterval(timers), interval * 1000)

\* the initial-load effect once repositoryWorkflows has become next (loading,
\* message and calls being what the step itself left): with an unloaded
\* entry it calls refreshWorkflows, which raises the global flag, clears the
\* global error and issues its requests
InitialLoadEffect(next, loading, message, calls) ==
  IF token # Null /\ token # "" /\ isValidated /\ Len(next) > 0 /\ HasUnloadedRepos(next)
    THEN /\ Len(calls) < MaxGlobalRefreshes
         /\ refreshAllCalls' = Append(calls, StartRefreshAll(next))
         /\ wfIsLoading' = TRUE
         /\ wfError' = Null
    ELSE /\ refreshAllCalls' = calls
         /\ wfIsLoading' = loading
         /\ wfError' = message

\* the effects that run once repositoryWorkflows has become next
WorkflowEffects(next, loading, message, calls) ==
  /\ InitialLoadEffect(next, loading, message, calls)
  /\ AutoRefreshEffect(Len(next), refreshInterval)
  /\ UNCHANGED <<refreshInterval, mounted, remote>>

\* variant: every position is taken to match
MatchingAll(current, repositoryId) == 1..Len(current)

\* the positions for which rw.repository.id === repositoryId
Matching(current, repositoryId) ==
  {k \in 1..Len(current) : current[k].repository.id = repositoryId}

\* a refreshRepository call that has settled
SettledRefresh == [pc |-> "done", repositoryId |-> 0]

\* refreshRepository(repositoryId) up to its request
RefreshRepositoryStart(repositoryId) ==
  /\ mounted
  /\ token # Null /\ token # "" /\ isValidated
  /\ IsTracked(repositoryWorkflows, repositoryId)
  /\ Len(refreshCalls) < MaxRefreshes
  /\ LET loading(rw) == [rw EXCEPT !.isLoading = TRUE, !.error = Null]
         next == [k \in 1..Len(repositoryWorkflows) |->
                    IF k \in Matching(repositoryWorkflows, repositoryId)
                      THEN loading(repositoryWorkflows[k]) ELSE repositoryWorkflows[k]]
     IN /\ repositoryWorkflows' = next
        /\ WorkflowEffects(next, wfIsLoading, wfError, refreshAllCalls)
  /\ refreshCalls' = Append(refreshCalls,
       [pc |-> "fetching", repositoryId |-> repositoryId])
  /\ lastAction' = "RefreshRepositoryStart"
  /\ UNCHANGED <<lastGlobalUpdate, now, selectionVars>>

\* refreshRepository once getLatestWorkflowStatuses has settled with the
\* remote service's answer
RefreshRepositorySettled(c) ==
  /\ mounted
  /\ refreshCalls[c].pc = "fetching"
  /\ LET repositoryId == refreshCalls[c].repositoryId
         result == makeRequest(remote[repositoryId].response)
         workflows == getLatestWorkflowStatuses(remote[repositoryId].workflowRuns)
         loaded(rw) == [rw EXCEPT !.workflows = workflows, !.isLoading = FALSE,
                                  !.error = Null, !.lastUpdated = now]
         failed(rw) == [rw EXCEPT !.workflows = <<>>, !.isLoading = FALSE,
                                  !.error = result.message]
         next == [k \in 1..Len(repositoryWorkflows) |->
                    IF k \in Matching(repositoryWorkflows, repositoryId)
                      THEN IF result.ok THEN loaded(repositoryWorkflows[k])
                                        ELSE failed(repositoryWorkflows[k])
                      ELSE repositoryWorkflows[k]]
     IN /\ repositoryWorkflows' = next
        /\ WorkflowEffects(next, wfIsLoading, wfError, refreshAllCalls)
        /\ refreshCalls' = [refreshCalls EXCEPT ![c] = SettledRefresh]
        /\ now' = IF result.ok THEN now + 1 ELSE now
        /\ lastAction' = IF result.ok THEN "RefreshRepositoryDone" ELSE "RefreshRepositoryFailed"
  /\ UNCHANGED <<lastGlobalUpdate, selectionVars>>

\* refreshWorkflows() up to its requests, called by the timer or by hand
RefreshWorkflowsStart(caller) ==
  /\ mounted
  /\ token # Null /\ token # "" /\ isValidated
  /\ Len(repositoryWorkflows) > 0
  /\ Len(refreshAllCalls) < MaxGlobalRefreshes
  /\ refreshAllCalls' = Append(refreshAllCalls, StartRefreshAll(repositoryWorkflows))
  /\ wfIsLoading' = TRUE
  /\ wfError' = Null
  /\ lastAction' = caller
  /\ UNCHANGED <<repositoryWorkflows, lastGlobalUpdate, refreshCalls, now, refreshInterval,
                 timers, mounted, remote, selectionVars>>

\* the interval callback runs
TimerFires ==
  /\ timers # <<>>
  /\ RefreshWorkflowsStart("TimerFires")

\* setRepositoryWorkflows after Promise.all: every entry with a result takes it
MergeResults(current, results) ==
  [k \in 1..Len(current) |->
     LET rw == current[k] IN
       IF rw.repository.id \in DOMAIN results
         THEN [rw EXCEPT !.workflows = results[rw.repository.id].workflows,
                         !.error = results[rw.repository.id].error,
                         !.isLoading = FALSE,
                         !.lastUpdated = now]
         ELSE rw]

\* variant: the global time is stamped whenever a request settles
GlobalStampEarly(resolved) == now

\* setLastGlobalUpdate(new Date()) follows the merge, once Promise.all has
\* resolved
GlobalStamp(resolved) == IF resolved THEN now ELSE lastGlobalUpdate

\* one request of a refreshWorkflows call settles; with the last one
\* Promise.all resolves and the call merges its results, stamps the global
\* time and lowers the global flag
RefreshWorkflowsFetchSettled(g, id) ==
  /\ mounted
  /\ refreshAllCalls[g].pc = "fetching"
  /\ id \in refreshAllCalls[g].pending
  /\ LET result == RefreshResult(remote[id].response, remote[id].workflowRuns)
         results == [refreshAllCalls[g].results EXCEPT ![id] = result]
     IN
     IF refreshAllCalls[g].pending # {id}
       THEN /\ refreshAllCalls' = [refreshAllCalls EXCEPT ![g].pending = @ \ {id},
                                                          ![g].results = results]
            /\ lastAction' = "RefreshWorkflowsFetchSettled"
            /\ lastGlobalUpdate' = GlobalStamp(FALSE)
            /\ UNCHANGED <<repositoryWorkflows, wfIsLoading, wfError, now,
                           refreshInterval, timers, mounted, remote>>
       ELSE LET next == MergeResults(repositoryWorkflows, results)
                calls == [refreshAllCalls EXCEPT ![g] = SettledRefreshAll]
            IN /\ repositoryWorkflows' = next
               /\ WorkflowEffects(next, FALSE, wfError, calls)
               /\ lastGlobalUpdate' = GlobalStamp(TRUE)
               /\ now' = now + 1
               /\ lastAction' = "RefreshWorkflowsSettled"
  /\ UNCHANGED <<refreshCalls, selectionVars>>

\* setRefreshInterval(interval)
SetRefreshInterval(interval) ==
  /\ mounted
  /\ interval # refreshInterval
  /\ refreshInterval' = interval
  /\ AutoRefreshEffect(Len(repositoryWorkflows), interval)
  /\ lastAction' = "SetRefreshInterval"
  /\ UNCHANGED <<repositoryWorkflows, wfIsLoading, wfError, lastGlobalUpdate, refreshCalls,
                 refreshAllCalls, now, mounted, remote, selectionVars>>

\* WorkflowProvider is unmounted: the effect cleanups run; what settles
\* later updates no state
Dispose ==
  /\ mounted
  /\ mounted' = FALSE
  /\ timers' = ClearInterval(timers)
  /\ lastAction' = "Dispose"
  /\ UNCHANGED <<repositoryWorkflows, wfIsLoading, wfError, lastGlobalUpdate, refreshCalls,
                 refreshAllCalls, now, refreshInterval, remote, selectionVars>>

\* toggleRepository seen from WorkflowProvider: its effect tracks the new
\* selection
WatchToggle(repository) ==
  /\ mounted
  /\ Classified(repository)
  /\ ToggleRepository(repository)
  /\ LET next == TrackSelection(repositoryWorkflows, selectedRepositories') IN
       /\ repositoryWorkflows' = next
       /\ WorkflowEffects(next, wfIsLoading, wfError, refreshAllCalls)
  /\ UNCHANGED <<lastGlobalUpdate, refreshCalls, now>>

\* clearSelection seen from WorkflowProvider
WatchClear ==
  /\ mounted
  /\ selectedRepositories # <<>>
  /\ ClearSelection
  /\ repositoryWorkflows' = <<>>
  /\ WorkflowEffects(<<>>, wfIsLoading, wfError, refreshAllCalls)
  /\ UNCHANGED <<lastGlobalUpdate, refreshCalls, now>>

(***************************************************************************)
(* GitHubApiClient methods called directly on a client                      *)
(***************************************************************************)
clientVars == <<clientCall>>

NoActivity == [hasActivity |-> FALSE, totalRuns |-> 0]

\* latestByWorkflow = {} before the loop
NoStatuses == [w \in WorkflowIds |-> NoRun]

IdleClientCall ==
  [op |-> "none", pc |-> "idle", response |-> HttpOk, thrown |-> NoError,
   user |-> Null, statuses |-> NoStatuses, activity |-> NoActivity]

ClientIdle == clientCall = IdleClientCall

ClientOps == {"validateToken", "getLatestWorkflowStatuses", "hasRecentWorkflowActivity"}

\* what fetch() can produce for a request of the client
ClientResponses == Responses \cup {HttpErrorUnparsable(500)}

\* the repositories asked about: every combination of the age of the latest
\* run and the number of workflows
ClientRepoIds == 1..6

CreatedAts == 1..2

\* the run lists GET /repos/{owner}/{repo}/actions/runs can answer with: runs
\* of distinct ids, in any order of workflow and creation time
ClientRunLists ==
  UNION {{[k \in 1..n |-> WorkflowRun(k, f[k][1], f[k][2])] :
            f \in [1..n -> WorkflowIds \X CreatedAts]} : n \in 0..MaxRunListLen}

\* the repository the call is about
ClientRepo == CHOOSE id \in DOMAIN remote : TRUE

\* a method is called on the client; its first request is issued
ClientCallStart(op) ==
  /\ clientCall.pc \in {"idle", "resolved", "rejected"}
  /\ clientCall' = [IdleClientCall EXCEPT !.op = op, !.pc = "requesting"]
  /\ lastAction' = "ClientCallStart"

\* a method that awaits makeRequest without a handler: it rejects with what
\* makeRequest throws
Propagate(call, response) ==
  [call EXCEPT !.response = response,
               !.pc = IF makeRequest(response).ok THEN "resolved" ELSE "rejected",
               !.thrown = IF makeRequest(response).ok THEN NoError ELSE makeRequest(response)]

\* validateToken: GET /user settles
ClientValidateTokenSettled(response) ==
  /\ clientCall.op = "validateToken"
  /\ clientCall.pc = "requesting"
  /\ clientCall' = [Propagate(clientCall, response) EXCEPT
                      !.user = IF makeRequest(response).ok THEN LoginOf(token) ELSE Null]
  /\ lastAction' = "ClientValidateTokenSettled"

\* getLatestWorkflowStatuses: getWorkflowRuns settles, the runs are reduced
GetLatestWorkflowStatusesSettled ==
  /\ clientCall.op = "getLatestWorkflowStatuses"
  /\ clientCall.pc = "requesting"
  /\ LET response == remote[ClientRepo].response
     IN clientCall' = [Propagate(clientCall, response) EXCEPT
                         !.statuses = IF makeRequest(response).ok
                                        THEN LatestByWorkflow(remote[ClientRepo].workflowRuns,
                                                              1, NoStatuses)
                                        ELSE NoStatuses]
  /\ lastAction' = "GetLatestWorkflowStatusesSettled"

\* hasRecentWorkflowActivity: getWorkflowRuns settles; a failure is caught and
\* getWorkflows is requested
HasRecentWorkflowActivityRunsSettled ==
  /\ clientCall.op = "hasRecentWorkflowActivity"
  /\ clientCall.pc = "requesting"
  /\ LET response == remote[ClientRepo].response
     IN clientCall' = IF makeRequest(response).ok
                        THEN [clientCall EXCEPT !.response = response, !.pc = "resolved",
                                                !.activity = ActivityFromRuns(ClientRepo)]
                        ELSE [clientCall EXCEPT !.response = response, !.pc = "fallback"]
  /\ lastAction' = "HasRecentWorkflowActivityRunsSettled"

\* variant: a failure of getWorkflows is not caught
ActivityFallbackUncaught(id, result) ==
  IF result.ok
    THEN [pc |-> "resolved", thrown |-> NoError, activity |-> ActivityFromWorkflows(id, result)]
    ELSE [pc |-> "rejected", thrown |-> result, activity |-> NoActivity]

\* the catch block of hasRecentWorkflowActivity once getWorkflows has settled:
\* its own failure is caught as well
ActivityFallback(id, result) ==
  [pc |-> "resolved", thrown |-> NoError, activity |-> ActivityFromWorkflows(id, result)]

\* hasRecentWorkflowActivity: the getWorkflows request of the fallback settles
HasRecentWorkflowActivityWorkflowsSettled(response) ==
  /\ clientCall.op = "hasRecentWorkflowActivity"
  /\ clientCall.pc = "fallback"
  /\ LET outcome == ActivityFallback(ClientRepo, makeRequest(response))
     IN clientCall' = [clientCall EXCEPT !.response = response, !.pc = outcome.pc,
                                         !.thrown = outcome.thrown,
                                         !.activity = outcome.activity]
  /\ lastAction' = "HasRecentWorkflowActivityWorkflowsSettled"

(***************************************************************************)
(* secure-storage functions called directly, one call awaited after another *)
(***************************************************************************)
storageVars == <<storageCall, lastPut>>

IdleStorageCall ==
  [op |-> "none", key |-> Null, value |-> Null, outcome |-> "none", result |-> Null,
   message |-> Null]

NoPut == [put |-> FALSE, value |-> ""]

StorageIdle ==
  /\ storageCall = IdleStorageCall
  /\ lastPut = [k \in StorageKeys |-> NoPut]

\* the strings put: the empty one, a credential, a credential preceded by a
\* byte order mark
Texts == {"", "ghp_a", BOM \o "ghp_a"}

\* what a step of setSecureItem can throw: the message of an Error (a crypto
\* step, localStorage.setItem), or something that is not an Error
StorageFailures == {"OperationError", "QuotaExceededError", "Unknown error"}

\* setSecureItem(key, value) settles: it rejects when crypto or localStorage
\* is missing or a step throws (failure # Null), else the envelope is written
SetSecureItemCall(key, value, failure, salt, iv) ==
  /\ IF secureStorageAvailable /\ failure = Null
       THEN /\ localStorage' = [localStorage EXCEPT ![key] = setSecureItem(salt, iv, value)]
            /\ lastPut' = [lastPut EXCEPT ![key] = [put |-> TRUE, value |-> value]]
            /\ storageCall' = [op |-> "setSecureItem", key |-> key, value |-> value,
                               outcome |-> "resolved", result |-> Null, message |-> Null]
       ELSE /\ storageCall' =
                 [op |-> "setSecureItem", key |-> key, value |-> value,
                  outcome |-> "rejected", result |-> Null,
                  message |-> setSecureItemError(
                                IF secureStorageAvailable THEN failure
                                ELSE "Secure storage not available")]
            /\ UNCHANGED <<localStorage, lastPut>>
  /\ lastAction' = "SetSecureItemCall"
  /\ UNCHANGED <<token, isValidated, isLoading, error, userId, isSecureStorageSupported,
                 secureStorageAvailable, loadCall, setCall, validateCall>>

\* getSecureItem(key) settles: null without crypto or localStorage; an entry
\* that cannot be read is removed
GetSecureItemCall(key) ==
  /\ LET entry == localStorage[key]
         failed == secureStorageAvailable /\ getSecureItemFails(entry)
     IN /\ storageCall' = [op |-> "getSecureItem", key |-> key, value |-> Null,
                           outcome |-> "resolved",
                           result |-> IF secureStorageAvailable THEN getSecureItem(entry)
                                      ELSE Null,
                           message |-> Null]
        /\ localStorage' = IF failed THEN removeSecureItem(localStorage, key)
                           ELSE localStorage
        /\ lastPut' = IF failed THEN [lastPut EXCEPT ![key] = NoPut] ELSE lastPut
  /\ lastAction' = "GetSecureItemCall"
  /\ UNCHANGED <<token, isValidated, isLoading, error, userId, isSecureStorageSupported,
                 secureStorageAvailable, loadCall, setCall, validateCall>>

\* removeSecureItem(key)
RemoveSecureItemCall(key) ==
  /\ localStorage' = removeSecureItem(localStorage, key)
  /\ lastPut' = [lastPut EXCEPT ![key] = NoPut]
  /\ storageCall' = [op |-> "removeSecureItem", key |-> key, value |-> Null,
                     outcome |-> "resolved", result |-> Null, message |-> Null]
  /\ lastAction' = "RemoveSecureItemCall"
  /\ UNCHANGED <<token, isValidated, isLoading, error, userId, isSecureStorageSupported,
                 secureStorageAvailable, loadCall, setCall, validateCall>>

(***************************************************************************)
(* Specification of the credential manager                                  *)
(***************************************************************************)
vars == <<tokenVars, discoveryVars, selectionVars, workflowVars, clientVars, storageVars, ops, lastAction>>

Init ==
  /\ TokenInit
  /\ DiscoveryInit({0})
  /\ SelectionIdle
  /\ WorkflowIdle
  /\ ClientIdle
  /\ StorageIdle
  /\ selectedOrganization = Null
  /\ organizations = <<>>
  /\ ops = 0
  /\ lastAction = "Init"

TokenNext ==
  \/ Mount
  \/ LoadStoredRead
  \/ \E response \in Responses : LoadStoredValidated(response)
  \/ LoadStoredUser
  \/ \E newToken \in RawTokens : SetTokenStart(newToken)
  \/ \E response \in Responses : SetTokenValidated(response)
  \/ \E ok \in BOOLEAN, n \in Nonces : SetTokenStored(ok, n, n)
  \/ \E login \in {LoginOf(setCall.newToken), Null} : SetTokenLookup(login)
  \/ \E ok \in BOOLEAN, n \in Nonces : SetTokenUserStored(ok, n, n)
  \/ RemoveToken
  \/ ValidateTokenStart
  \/ \E response \in Responses : ValidateTokenDone(response)

Next == TokenNext /\ UNCHANGED <<discoveryVars, selectionVars, workflowVars, clientVars, storageVars>>

Spec == Init /\ [][Next]_vars

(***************************************************************************)
(* Specification of repository discovery: a session whose credential has   *)
(* been set and validated (a state Spec reaches), the remote collection    *)
(* having one of the sizes the pagination rule distinguishes               *)
(***************************************************************************)
PagingSizes == {0, 1, perPage, 3 * perPage - 1, 3 * perPage}

ValidSession(t) ==
  /\ token = t
  /\ isValidated = TRUE
  /\ isLoading = FALSE
  /\ error = Null
  /\ userId = LoginOf(t)
  /\ isSecureStorageSupported = TRUE
  /\ secureStorageAvailable = TRUE
  /\ localStorage = [k \in StorageKeys |->
                       IF k = GITHUB_TOKEN THEN setSecureItem(1, 1, t)
                                           ELSE setSecureItem(1, 1, LoginOf(t))]
  /\ loadCall = [IdleLoadCall EXCEPT !.pc = "done"]
  /\ setCall = [IdleSetCall EXCEPT !.newToken = t, !.supported = TRUE, !.validated = TRUE,
                                   !.validation = [isValid |-> TRUE, error |-> ""],
                                   !.login = LoginOf(t), !.outcome = "resolved",
                                   !.exclusive = TRUE]
  /\ validateCall = IdleValidateCall

DiscoveryStart ==
  /\ ValidSession("ghp_a")
  /\ DiscoveryInit(PagingSizes)
  /\ SelectionIdle
  /\ WorkflowIdle
  /\ ClientIdle
  /\ StorageIdle
  /\ ops = 0
  /\ lastAction = "SetTokenUserStored"

DiscoveryNext ==
  \/ \E r \in RunIds, owner \in {Null, OrgOwner} :
       FetchRepositoriesStart(r, owner) /\ UNCHANGED <<clientVars, storageVars, tokenVars, selectionVars, workflowVars>>
  \/ \E r \in RunIds, response \in Responses :
       FetchPageSettled(r, response) /\ UNCHANGED <<clientVars, storageVars, tokenVars, selectionVars, workflowVars>>
  \/ RemoveToken /\ UNCHANGED <<discoveryVars, selectionVars, workflowVars, clientVars, storageVars>>
  \/ ValidateTokenStart /\ UNCHANGED <<discoveryVars, selectionVars, workflowVars, clientVars, storageVars>>
  \/ (\E response \in Responses : ValidateTokenDone(response)) /\ UNCHANGED <<discoveryVars, selectionVars, workflowVars, clientVars, storageVars>>

SpecDiscovery == DiscoveryStart /\ [][DiscoveryNext]_vars

(***************************************************************************)
(* Specification of overlapping discoveries with their enrichment: the     *)
(* collections fit one batch, so no run pauses between batches             *)
(***************************************************************************)
EnrichSizes == {1, 2}

EnrichStart ==
  /\ ValidSession("ghp_a")
  /\ DiscoveryInit(EnrichSizes)
  /\ SelectionIdle
  /\ WorkflowIdle
  /\ ClientIdle
  /\ StorageIdle
  /\ ops = 0
  /\ lastAction = "SetTokenUserStored"

EnrichNext ==
  \/ \E r \in RunIds, owner \in {Null, OrgOwner} :
       FetchRepositoriesStart(r, owner) /\ UNCHANGED <<clientVars, storageVars, tokenVars, selectionVars, workflowVars>>
  \/ \E r \in RunIds, response \in Responses :
       FetchPageSettled(r, response) /\ UNCHANGED <<clientVars, storageVars, tokenVars, selectionVars, workflowVars>>
  \/ \E c \in 1..Len(checks) : \E id \in checks[c].pending, response \in Responses :
       ProbeRunsSettled(c, id, response) /\ UNCHANGED <<clientVars, storageVars, tokenVars, selectionVars, workflowVars>>
  \/ \E c \in 1..Len(checks) : \E id \in checks[c].fallback, response \in Responses :
       ProbeWorkflowsSettled(c, id, response) /\ UNCHANGED <<clientVars, storageVars, tokenVars, selectionVars, workflowVars>>

SpecEnrich == EnrichStart /\ [][EnrichNext]_vars

(***************************************************************************)
(* Specification of one discovery and its enrichment run over several      *)
(* batches: 6 or 9 entries are left of 8 or 13 after filtering             *)
(***************************************************************************)
BatchSizes == {8, 13}

\* the user has one operation left: a single discovery
BatchesStart ==
  /\ ValidSession("ghp_a")
  /\ DiscoveryInit(BatchSizes)
  /\ SelectionIdle
  /\ WorkflowIdle
  /\ ClientIdle
  /\ StorageIdle
  /\ ops = MaxOps - 1
  /\ lastAction = "SetTokenUserStored"

BatchesNext ==
  \/ EnrichNext
  \/ \E c \in 1..Len(checks) : BatchDelayElapsed(c) /\ UNCHANGED <<clientVars, storageVars, tokenVars, selectionVars, workflowVars>>

SpecBatches == BatchesStart /\ [][BatchesNext]_vars

\* every request of a probe settles
ProbesSettle ==
  \/ \E c \in 1..Len(checks) : \E id \in checks[c].pending, response \in Responses :
       ProbeRunsSettled(c, id, response) /\ UNCHANGED <<clientVars, storageVars, tokenVars, selectionVars, workflowVars>>
  \/ \E c \in 1..Len(checks) : \E id \in checks[c].fallback, response \in Responses :
       ProbeWorkflowsSettled(c, id, response) /\ UNCHANGED <<clientVars, storageVars, tokenVars, selectionVars, workflowVars>>

\* the timer of the pause between two batches fires
DelayElapses ==
  \E c \in 1..Len(checks) : BatchDelayElapsed(c) /\ UNCHANGED <<clientVars, storageVars, tokenVars, selectionVars, workflowVars>>

\* the same discovery and enrichment run, in an environment in which every
\* probe settles and every timer fires
SpecBatchesFair == SpecBatches /\ WF_vars(ProbesSettle) /\ WF_vars(DelayElapses)

(***************************************************************************)
(* Specification of the Selection Set: a session starts with what an       *)
(* earlier one left under SELECTED_REPOSITORIES, runs one discovery and    *)
(* selection operations, and may be restarted                               *)
(***************************************************************************)
\* an entry as an earlier session selected it
StoredRepo == [id |-> 1, owner |-> "alice", workflowStatus |-> "has-workflows",
               workflowCount |-> 1]

\* what an earlier session left: the entry under SELECTED_REPOSITORIES and
\* the last organization
StoredSelections ==
  {<<Absent, Null>>, <<Garbage, OrgOwner>>,
   <<Envelope(ThisDevice, 1, 1, <<StoredRepo>>), OrgOwner>>,
   <<Envelope(ThisDevice, 1, 1, <<StoredRepo>>), Null>>,
   <<Envelope(OtherDevice, 1, 1, <<StoredRepo>>), Null>>}

SelectionStart ==
  /\ ValidSession("ghp_a")
  /\ DiscoveryInit({2})
  /\ selectedOrganization = Null
  /\ organizations # <<>>
  /\ selectedRepositories = <<>>
  /\ \E stored \in StoredSelections :
       /\ selectionStore = stored[1]
       /\ selLoad = [pc |-> "pending", lastOrg |-> stored[2], restarted |-> FALSE]
  /\ saves = {}
  /\ shutdownSelection = <<>>
  /\ selOps = 0
  /\ WorkflowIdle
  /\ ClientIdle
  /\ StorageIdle
  /\ ops = MaxOps - 1
  /\ lastAction = "SetTokenUserStored"

\* the entries a caller can pass to toggleRepository: an entry of the
\* published list, with the classification it had when it was rendered
ToggleArguments ==
  {[availableRepositories[k] EXCEPT !.workflowStatus = st] :
     k \in 1..Len(availableRepositories), st \in WorkflowStatuses}

SelectionNext ==
  \/ EnrichNext
  \/ \E repository \in ToggleArguments :
       ToggleRepository(repository) /\ UNCHANGED <<clientVars, storageVars, tokenVars, discoveryVars, workflowVars, ops>>
  \/ SelectAll /\ UNCHANGED <<clientVars, storageVars, tokenVars, discoveryVars, workflowVars, ops>>
  \/ ClearSelection /\ UNCHANGED <<clientVars, storageVars, tokenVars, discoveryVars, workflowVars, ops>>
  \/ \E value \in saves, ok \in BOOLEAN :
       SaveSettled(value, ok, 1) /\ UNCHANGED <<clientVars, storageVars, tokenVars, discoveryVars, workflowVars, ops>>
  \/ LoadStoredData
       /\ UNCHANGED <<clientVars, storageVars, tokenVars, organizations, availableRepositories, repoIsLoading,
                      repoError, remoteSize, runs, checks, workflowVars, ops>>
  \/ Restart /\ UNCHANGED <<clientVars, storageVars, tokenVars, workflowVars, ops>>

SpecSelection == SelectionStart /\ [][SelectionNext]_vars

(***************************************************************************)
(* Specification of the watched set: WorkflowProvider has been mounted over *)
(* a selection of two repositories, so both are tracked and the first      *)
(* refreshWorkflows call is in flight                                       *)
(***************************************************************************)
WorkflowStart ==
  /\ ValidSession("ghp_a")
  /\ DiscoveryInit({0})
  /\ selectedOrganization = Null
  /\ organizations = <<>>
  /\ selectedRepositories = <<WatchedRepo(1), WatchedRepo(2)>>
  /\ selectionStore = Absent
  /\ saves = {}
  /\ selLoad = IdleSelLoad
  /\ shutdownSelection = <<>>
  /\ selOps = 0
  /\ repositoryWorkflows = TrackSelection(<<>>, selectedRepositories)
  /\ wfIsLoading = TRUE
  /\ wfError = Null
  /\ lastGlobalUpdate = 0
  /\ refreshCalls = <<>>
  /\ refreshAllCalls = <<StartRefreshAll(repositoryWorkflows)>>
  /\ now = 1
  /\ refreshInterval = DefaultRefreshInterval
  /\ timers = <<DefaultRefreshInterval * 1000>>
  /\ mounted = TRUE
  /\ remote \in [WatchedIds -> Answers]
  /\ ClientIdle
  /\ StorageIdle
  /\ ops = 0
  /\ lastAction = "RefreshWorkflowsStart"

WorkflowNext ==
  \/ \E repositoryId \in WatchedIds :
       RefreshRepositoryStart(repositoryId) /\ UNCHANGED <<clientVars, storageVars, tokenVars, discoveryVars, ops>>
  \/ \E c \in 1..Len(refreshCalls) :
       RefreshRepositorySettled(c) /\ UNCHANGED <<clientVars, storageVars, tokenVars, discoveryVars, ops>>
  \/ \E g \in 1..Len(refreshAllCalls) : \E id \in refreshAllCalls[g].pending :
       RefreshWorkflowsFetchSettled(g, id) /\ UNCHANGED <<clientVars, storageVars, tokenVars, discoveryVars, ops>>
  \/ RefreshWorkflowsStart("RefreshWorkflows") /\ UNCHANGED <<clientVars, storageVars, tokenVars, discoveryVars, ops>>
  \/ TimerFires /\ UNCHANGED <<clientVars, storageVars, tokenVars, discoveryVars, ops>>

SpecWorkflow == WorkflowStart /\ [][WorkflowNext]_vars

(***************************************************************************)
(* Specification of the refresh timer: WorkflowProvider is mounted over an  *)
(* empty selection with the interval the stored settings gave; repositories *)
(* are selected and deselected, the interval is changed, the timer fires,   *)
(* the provider is unmounted                                                *)
(***************************************************************************)
\* the values of REFRESH_INTERVALS
REFRESH_INTERVALS == {10, 30, 60, 120, 300, 600, 1800, 3600}

\* the intervals explored: the shortest and the default one
ChosenIntervals == {i \in REFRESH_INTERVALS : i = 10 \/ i = DefaultRefreshInterval}

\* what the stored settings can hold: a listed interval, or 0
StoredIntervals == ChosenIntervals \cup {0}

TimerStart ==
  /\ ValidSession("ghp_a")
  /\ DiscoveryInit({0})
  /\ selectedOrganization = Null
  /\ organizations = <<>>
  /\ SelectionIdle
  /\ repositoryWorkflows = <<>>
  /\ wfIsLoading = FALSE
  /\ wfError = Null
  /\ lastGlobalUpdate = 0
  /\ refreshCalls = <<>>
  /\ refreshAllCalls = <<>>
  /\ now = 1
  /\ refreshInterval \in StoredIntervals
  /\ timers = <<>>
  /\ mounted = TRUE
  /\ remote \in [WatchedIds -> Answers]
  /\ ClientIdle
  /\ StorageIdle
  /\ ops = 0
  /\ lastAction = "SetTokenUserStored"

TimerNext ==
  \/ \E i \in WatchedIds :
       WatchToggle(WatchedRepo(i)) /\ UNCHANGED <<clientVars, storageVars, tokenVars, discoveryVars, ops>>
  \/ WatchClear /\ UNCHANGED <<clientVars, storageVars, tokenVars, discoveryVars, ops>>
  \/ \E interval \in ChosenIntervals :
       SetRefreshInterval(interval) /\ UNCHANGED <<clientVars, storageVars, tokenVars, discoveryVars, ops>>
  \/ TimerFires /\ UNCHANGED <<clientVars, storageVars, tokenVars, discoveryVars, ops>>
  \/ \E g \in 1..Len(refreshAllCalls) : \E id \in refreshAllCalls[g].pending :
       RefreshWorkflowsFetchSettled(g, id) /\ UNCHANGED <<clientVars, storageVars, tokenVars, discoveryVars, ops>>
  \/ Dispose /\ UNCHANGED <<clientVars, storageVars, tokenVars, discoveryVars, ops>>

SpecTimer == TimerStart /\ [][TimerNext]_vars

(***************************************************************************)
(* Specification of the tracking of the selection: WorkflowProvider is     *)
(* mounted over an empty selection with the default interval; repositories *)
(* are selected, deselected and cleared while refreshRepository and        *)
(* refreshWorkflows calls are in flight                                     *)
(***************************************************************************)
TrackingStart ==
  /\ TimerStart
  /\ refreshInterval = DefaultRefreshInterval

TrackingNext ==
  \/ \E i \in WatchedIds :
       WatchToggle(WatchedRepo(i))
         /\ UNCHANGED <<clientVars, storageVars, tokenVars, discoveryVars, ops>>
  \/ WatchClear /\ UNCHANGED <<clientVars, storageVars, tokenVars, discoveryVars, ops>>
  \/ \E g \in 1..Len(refreshAllCalls) : \E id \in refreshAllCalls[g].pending :
       RefreshWorkflowsFetchSettled(g, id)
         /\ UNCHANGED <<clientVars, storageVars, tokenVars, discoveryVars, ops>>
  \/ \E repositoryId \in WatchedIds :
       RefreshRepositoryStart(repositoryId)
         /\ UNCHANGED <<clientVars, storageVars, tokenVars, discoveryVars, ops>>
  \/ \E c \in 1..Len(refreshCalls) :
       RefreshRepositorySettled(c)
         /\ UNCHANGED <<clientVars, storageVars, tokenVars, discoveryVars, ops>>

SpecTracking == TrackingStart /\ [][TrackingNext]_vars

(***************************************************************************)
(* Specification of the API client: methods are called one after another   *)
(* on a client whose token is valid, about one repository whose runs       *)
(* request is answered by a response and a run list fixed at the start      *)
(***************************************************************************)
ClientStart ==
  /\ ValidSession("ghp_a")
  /\ DiscoveryInit({0})
  /\ selectedOrganization = Null
  /\ organizations = <<>>
  /\ SelectionIdle
  /\ repositoryWorkflows = <<>>
  /\ wfIsLoading = FALSE
  /\ wfError = Null
  /\ lastGlobalUpdate = 0
  /\ refreshCalls = <<>>
  /\ refreshAllCalls = <<>>
  /\ now = 1
  /\ refreshInterval = DefaultRefreshInterval
  /\ timers = <<>>
  /\ mounted = TRUE
  /\ \E id \in ClientRepoIds, response \in ClientResponses, workflowRuns \in ClientRunLists :
       /\ (RemoteLatestRun(id) = "none") <=> (workflowRuns = <<>>)
       /\ remote = [i \in {id} |-> Answer(response, workflowRuns)]
  /\ ClientIdle
  /\ StorageIdle
  /\ ops = 0
  /\ lastAction = "SetTokenUserStored"

ClientNext ==
  \/ \E op \in ClientOps :
       ClientCallStart(op)
         /\ UNCHANGED <<tokenVars, discoveryVars, selectionVars, workflowVars, storageVars, ops>>
  \/ \E response \in ClientResponses :
       ClientValidateTokenSettled(response)
         /\ UNCHANGED <<tokenVars, discoveryVars, selectionVars, workflowVars, storageVars, ops>>
  \/ GetLatestWorkflowStatusesSettled
       /\ UNCHANGED <<tokenVars, discoveryVars, selectionVars, workflowVars, storageVars, ops>>
  \/ HasRecentWorkflowActivityRunsSettled
       /\ UNCHANGED <<tokenVars, discoveryVars, selectionVars, workflowVars, storageVars, ops>>
  \/ \E response \in ClientResponses :
       HasRecentWorkflowActivityWorkflowsSettled(response)
         /\ UNCHANGED <<tokenVars, discoveryVars, selectionVars, workflowVars, storageVars, ops>>

SpecClient == ClientStart /\ [][ClientNext]_vars

(***************************************************************************)
(* Specification of the encrypted store: no provider is mounted; the store *)
(* holds what an earlier session left and the secure-storage functions are *)
(* called on its keys                                                       *)
(***************************************************************************)
\* an envelope of this device whose ciphertext was altered afterwards
Tampered ==
  [Envelope(ThisDevice, 1, 1, "ghp_a") EXCEPT
     !.encrypted = encrypt(deriveKey(getDevicePassword(ThisDevice), 1), 0, "ghp_a")]

\* what may be found under a key: nothing, an empty value, text that is not
\* JSON, JSON without the three arrays, an envelope of this device (intact
\* or tampered with) or of another one
FoundEntries ==
  {Absent, Empty, Garbage, Malformed, Tampered,
   Envelope(ThisDevice, 1, 1, "ghp_a"), Envelope(OtherDevice, 1, 1, "ghp_a")}

StorageStart ==
  /\ token = Null
  /\ isValidated = FALSE
  /\ isLoading = TRUE
  /\ error = Null
  /\ userId = Null
  /\ isSecureStorageSupported = FALSE
  /\ secureStorageAvailable \in BOOLEAN
  /\ localStorage \in [StorageKeys -> FoundEntries]
  /\ loadCall = IdleLoadCall
  /\ setCall = IdleSetCall
  /\ validateCall = IdleValidateCall
  /\ DiscoveryInit({0})
  /\ selectedOrganization = Null
  /\ organizations = <<>>
  /\ SelectionIdle
  /\ WorkflowIdle
  /\ ClientIdle
  /\ StorageIdle
  /\ ops = 0
  /\ lastAction = "Init"

StorageNext ==
  \/ \E key \in StorageKeys, value \in Texts, failure \in StorageFailures \cup {Null},
        salt \in Nonces, iv \in Nonces :
       SetSecureItemCall(key, value, failure, salt, iv)
         /\ UNCHANGED <<discoveryVars, selectionVars, workflowVars, clientVars, ops>>
  \/ \E key \in StorageKeys :
       GetSecureItemCall(key)
         /\ UNCHANGED <<discoveryVars, selectionVars, workflowVars, clientVars, ops>>
  \/ \E key \in StorageKeys :
       RemoveSecureItemCall(key)
         /\ UNCHANGED <<discoveryVars, selectionVars, workflowVars, clientVars, ops>>

SpecStorage == StorageStart /\ [][StorageNext]_vars

(***************************************************************************)
(* Specification of scope changes: RepositorySelectionProvider is mounted   *)
(* in a validated session; the scope is changed through                     *)
(* setSelectedOrganization, the list is refreshed through                   *)
(* fetchRepositories(), the organization list arrives, page requests and    *)
(* probes settle; the scopes offered are those of the organization list    *)
(* and every remote collection holds one repository.                       *)
(* The RepositorySelection component is not mounted.                        *)
(***************************************************************************)
MaxScopeRuns == 2
ScopeRunIds == 1..MaxScopeRuns

\* the slots of rs no discovery is fetching in
FreeRuns(rs) == {r \in DOMAIN rs : rs[r].pc # "fetching"}

\* fetchRepositories(owner) up to its first await, called from a closure that
\* holds the scope and the organization list orgs: the runs after the call
FetchRepositoriesCalled(rs, owner, scope, orgs, seq) ==
  LET targetOwner == OrElse(owner, OrElse(scope, userId))
      r == CHOOSE r \in FreeRuns(rs) : \A q \in FreeRuns(rs) : r <= q
  IN IF token = Null \/ token = "" \/ ~isValidated \/ targetOwner = Null \/ targetOwner = ""
       THEN rs
       ELSE [rs EXCEPT ![r] =
              [IdleRun EXCEPT !.pc = "fetching", !.seq = seq, !.token = token,
                              !.targetOwner = targetOwner,
                              !.isUser = IsUser(orgs, targetOwner),
                              !.page = 1, !.pages = <<1>>, !.inFlight = {1}]]

\* the effect on [token, isValidated, selectedOrganization, fetchRepositories]
\* after a commit in which scope or the organization list changed
ScopeEffect(rs, scope, orgs, seq) ==
  IF token # Null /\ token # "" /\ isValidated /\ scope # Null /\ scope # ""
    THEN FetchRepositoriesCalled(rs, scope, scope, orgs, seq)
    ELSE rs

\* setSelectedOrganization(org): the state is set, the published list and
\* the error are cleared, the scope is written to or removed from
\* github-flow-dashboard-last-org and fetchRepositories(org) is called; after
\* the commit the effect on selectedOrganization runs when the scope changed
SetSelectedOrganization(org) ==
  /\ UserOp
  /\ LET valid == token # Null /\ token # "" /\ isValidated
         direct == IF org # Null
                     THEN FetchRepositoriesCalled(runs, org, selectedOrganization,
                                                  organizations, ops + 1)
                     ELSE runs
     IN /\ Cardinality(FreeRuns(runs)) >= 2
        /\ selectedOrganization' = org
        /\ availableRepositories' = <<>>
        /\ repoError' = IF org # Null /\ ~valid THEN "Valid GitHub token required" ELSE Null
        /\ repoIsLoading' = IF org # Null /\ valid THEN TRUE ELSE repoIsLoading
        /\ selLoad' = [selLoad EXCEPT !.lastOrg = org]
        /\ runs' = IF org # selectedOrganization
                     THEN ScopeEffect(direct, org, organizations, ops + 1)
                     ELSE direct
  /\ lastAction' = "SetSelectedOrganization"
  /\ UNCHANGED <<organizations, remoteSize, checks>>

\* fetchOrganizations' two requests have resolved: the list is the user
\* followed by the organizations; fetchRepositories is a new callback, so
\* the effect on selectedOrganization runs again
FetchOrganizationsSettled ==
  /\ token # Null /\ isValidated /\ userId # Null
  /\ organizations = <<>>
  /\ Cardinality(FreeRuns(runs)) >= 1
  /\ LET allOrganizations == <<[login |-> LoginOf(token), type |-> "User"],
                               [login |-> OrgOwner, type |-> "Organization"]>>
     IN /\ organizations' = allOrganizations
        /\ runs' = ScopeEffect(runs, selectedOrganization, allOrganizations, ops)
  /\ repoIsLoading' = IF runs' # runs THEN TRUE ELSE repoIsLoading
  /\ repoError' = IF runs' # runs THEN Null ELSE repoError
  /\ lastAction' = "FetchOrganizationsSettled"
  /\ UNCHANGED <<selectedOrganization, availableRepositories, remoteSize, checks, ops>>

ScopeStart ==
  /\ ValidSession("ghp_a")
  /\ selectedOrganization \in {Null, OrgOwner}
  /\ organizations \in
       {<<>>,
        <<[login |-> "alice", type |-> "User"], [login |-> OrgOwner, type |-> "Organization"]>>}
  /\ availableRepositories = <<>>
  /\ repoIsLoading = FALSE
  /\ repoError = Null
  /\ remoteSize = 1
  /\ runs = [r \in ScopeRunIds |-> IdleRun]
  /\ checks = <<>>
  /\ SelectionIdle
  /\ WorkflowIdle
  /\ ClientIdle
  /\ StorageIdle
  /\ ops = 0
  /\ lastAction = "SetTokenUserStored"

ScopeNext ==
  \/ \E org \in {Null} \cup {organizations[k].login : k \in 1..Len(organizations)} :
       SetSelectedOrganization(org)
         /\ UNCHANGED <<clientVars, storageVars, tokenVars, workflowVars, selectedRepositories,
                        selectionStore, saves, shutdownSelection, selOps>>
  \/ FetchOrganizationsSettled /\ UNCHANGED <<clientVars, storageVars, tokenVars, selectionVars, workflowVars>>
  \/ \E r \in ScopeRunIds :
       FetchRepositoriesStart(r, Null) /\ UNCHANGED <<clientVars, storageVars, tokenVars, selectionVars, workflowVars>>
  \/ \E r \in ScopeRunIds, response \in Responses :
       FetchPageSettled(r, response) /\ UNCHANGED <<clientVars, storageVars, tokenVars, selectionVars, workflowVars>>
  \/ \E c \in 1..Len(checks) : \E id \in checks[c].pending, response \in Responses :
       ProbeRunsSettled(c, id, response) /\ UNCHANGED <<clientVars, storageVars, tokenVars, selectionVars, workflowVars>>
  \/ \E c \in 1..Len(checks) : \E id \in checks[c].fallback, response \in Responses :
       ProbeWorkflowsSettled(c, id, response) /\ UNCHANGED <<clientVars, storageVars, tokenVars, selectionVars, workflowVars>>

SpecScope == ScopeStart /\ [][ScopeNext]_vars

(***************************************************************************)
(* Credential validity state, as the provider exposes it                    *)
(***************************************************************************)
Validating == isLoading
Unset == ~isLoading /\ token = Null /\ ~isValidated
Valid == ~isLoading /\ token # Null /\ isValidated
Invalid == ~isLoading /\ token # Null /\ ~isValidated

CredentialState ==
  IF Validating THEN "Validating"
  ELSE IF Unset THEN "Unset"
  ELSE IF Valid THEN "Valid"
  ELSE IF Invalid THEN "Invalid"
  ELSE "ValidatedWithoutToken"

(***************************************************************************)
(* Properties                                                               *)
(***************************************************************************)

\* C1: no step of a setToken call whose validation fails changes the held
\* credential, its validity flag, the resolved identity or the persisted
\* credential entry, and the call rejects with the validation's reason.
C1_FailedSetTokenLeavesState ==
  [][ (lastAction' = "SetTokenStart"
        \/ (lastAction' = "SetTokenValidated" /\ ~setCall'.validation.isValid))
      => /\ token' = token
         /\ isValidated' = isValidated
         /\ userId' = userId
         /\ localStorage'[GITHUB_TOKEN] = localStorage[GITHUB_TOKEN]
         /\ (lastAction' = "SetTokenValidated"
              => /\ setCall'.outcome = "rejected"
                 /\ setCall'.validation.error # ""
                 /\ setCall'.message = setCall'.validation.error
                 /\ error' = setCall'.validation.error) ]_vars

\* a setToken was rejected for a bad credential while another one was held valid
C1_Witness ==
  /\ lastAction = "SetTokenValidated"
  /\ setCall.outcome = "rejected"
  /\ setCall.message = "Bad credentials"
  /\ token # Null /\ token # setCall.newToken
  /\ isValidated
  /\ localStorage[GITHUB_TOKEN] # Absent

\* C2: a setToken whose validation succeeded and whose identity lookup
\* returned login L, run without overlapping operation, has resolved with
\* the credential held, Valid, identity L and raw persisted; and the
\* credential entry is written only by setToken's persist step, after its
\* validation succeeded, with the validated credential.
C2_SetTokenResolved ==
  /\ lastAction \in {"SetTokenLookup", "SetTokenUserStored"}
  /\ setCall.outcome = "resolved"
  /\ setCall.login # Null

C2_SuccessfulSetToken ==
  /\ [](C2_SetTokenResolved /\ setCall.exclusive
         => /\ setCall.validation.isValid
            /\ token = setCall.newToken
            /\ isValidated /\ ~isLoading
            /\ userId = setCall.login
            /\ setCall.login = LoginOf(setCall.newToken)
            /\ (secureStorageAvailable
                  => getSecureItem(localStorage[GITHUB_TOKEN]) = setCall.newToken))
  /\ [][ (localStorage'[GITHUB_TOKEN] # localStorage[GITHUB_TOKEN]
            /\ localStorage'[GITHUB_TOKEN] # Absent)
         => /\ lastAction' = "SetTokenStored"
            /\ setCall.validated /\ setCall.validation.isValid
            /\ getSecureItem(localStorage'[GITHUB_TOKEN]) = setCall.newToken ]_vars

\* the credential restored at start-up was replaced by another one
C2_Witness ==
  /\ C2_SetTokenResolved /\ setCall.exclusive
  /\ secureStorageAvailable
  /\ loadCall.storedToken = "ghp_a" /\ loadCall.validation.isValid
  /\ setCall.newToken = "ghp_b"
  /\ userId = "bob"
  /\ ops = 1

\* C3: while the start-up load is reading the stored credential or waiting
\* for its identity check (and the user has done nothing), isLoading is true.
C3_LoadingWhileLoadPending ==
  (loadCall.pc \in {"reading", "validating"} /\ ops = 0) => isLoading

\* C4: started with secure storage unavailable or no entry under the
\* credential key, the load is over at once, has issued no identity check
\* and, until the user acts, the manager is Unset.
C4_StartWithoutCredential ==
  (Mounted /\ loadCall.entry = Absent)
    => /\ loadCall.pc = "done"
       /\ loadCall.requests = 0
       /\ (ops = 0 => Unset /\ validateCall.pc = "idle" /\ setCall.pc = "idle")

\* storage works, no credential stored, a stale identity entry is present
C4_Witness ==
  /\ lastAction = "Mount"
  /\ secureStorageAvailable
  /\ loadCall.entry = Absent
  /\ localStorage[GITHUB_USER_ID] # Absent

\* C5 as claimed: after the stored credential failed its check at start-up,
\* no credential is held and none is persisted.
C5_InvalidStoredCredentialDestroyed ==
  (lastAction = "LoadStoredValidated" /\ ~loadCall.validation.isValid)
    => token = Null /\ localStorage[GITHUB_TOKEN] = Absent

\* C5 amended: a stored credential that fails its identity check at start-up
\* is kept, in memory (Invalid, with the error message) and in the store;
\* the load destroys the persisted credential only when its entry cannot be
\* decrypted.
C5_InvalidStoredCredentialKept ==
  /\ []((lastAction = "LoadStoredValidated" /\ ~loadCall.validation.isValid /\ ops = 0)
          => /\ token = loadCall.storedToken
             /\ Invalid
             /\ error = "Stored token is no longer valid"
             /\ getSecureItem(localStorage[GITHUB_TOKEN]) = loadCall.storedToken)
  /\ []((lastAction = "LoadStoredRead" /\ loadCall.pc = "done" /\ ops = 0)
          => /\ getSecureItem(loadCall.entry) = Null
             /\ token = Null
             /\ localStorage[GITHUB_TOKEN] = Absent)
  /\ [][ lastAction' = "LoadStoredValidated"
           => token' = token /\ localStorage' = localStorage ]_vars

C5_Witness ==
  /\ lastAction = "LoadStoredValidated"
  /\ loadCall.validation.error = "Bad credentials"
  /\ ops = 0
  /\ token = "ghp_a"

C7_ListedTransitions ==
  {<<"Unset", "Validating">>, <<"Validating", "Valid">>, <<"Validating", "Invalid">>,
   <<"Valid", "Validating">>, <<"Valid", "Unset">>, <<"Invalid", "Unset">>}

C8_AuthFailureInvalidates ==
  \A r \in RunIds :
    (/\ lastAction = "FetchPageSettled"
     /\ runs[r].pc = "failed"
     /\ runs[r].failure.name = "GitHubApiError"
     /\ runs[r].failure.status \in {401, 403}
     /\ runs[r].token = token)
      => ~isValidated

\* C9: a fetchRepositories call that passed its precondition checks has
\* requested pages 1, 2, ... in order, page n + 1 exactly when page n had
\* resolved with perPage items, with at most one request in flight; a
\* finished call made 3 requests for 3 * perPage - 1 items, 1 for none.
C9_SequentialPaging ==
  \A r \in RunIds :
    LET run == runs[r] IN
      run.pc # "idle" =>
        /\ Len(run.pages) >= 1
        /\ \A n \in 1..Len(run.pages) : run.pages[n] = n
        /\ \A n \in 1..Len(run.lengths) :
             run.lengths[n] = Len(RemotePage(run.targetOwner, remoteSize, perPage, n))
        /\ \A n \in 1..Len(run.pages) :
             (n + 1 <= Len(run.pages)) <=> (n <= Len(run.lengths) /\ run.lengths[n] = perPage)
        /\ Cardinality(run.inFlight) <= 1
        /\ run.inFlight \subseteq {Len(run.pages)}
        /\ (run.pc = "done" /\ remoteSize = 3 * perPage - 1)
             => Len(run.pages) = 3 /\ Len(run.allRepositories) = remoteSize
        /\ (run.pc = "done" /\ remoteSize = 0) => Len(run.pages) = 1

\* a discovery of 3 * perPage - 1 repositories finished after a short third page
C9_Witness ==
  \E r \in RunIds :
    /\ runs[r].pc = "done"
    /\ remoteSize = 3 * perPage - 1
    /\ runs[r].lengths = <<perPage, perPage, perPage - 1>>

\* C10 as claimed: a finished discovery of exactly 3 * perPage repositories
\* made exactly 3 page requests.
C10_ThreeRequestsForThreeFullPages ==
  \A r \in RunIds :
    (runs[r].pc = "done" /\ remoteSize = 3 * perPage) => Len(runs[r].pages) = 3

\* C10 amended: for exactly 3 * perPage repositories a discovery makes at
\* most 4 page requests, a finished one exactly 4 (three full pages and an
\* empty fourth one); a discovery under way always waits for exactly one
\* request, whose answer either ends it or asks for the next page, so it
\* ends once its requests are answered.
C10_FourRequestsForThreeFullPages ==
  \A r \in RunIds :
    remoteSize = 3 * perPage =>
      /\ Len(runs[r].pages) <= 4
      /\ (runs[r].pc = "fetching"
            => /\ runs[r].inFlight = {Len(runs[r].pages)}
               /\ Len(runs[r].lengths) = Len(runs[r].pages) - 1)
      /\ (runs[r].pc = "done"
            => /\ runs[r].pages = <<1, 2, 3, 4>>
               /\ runs[r].lengths = <<perPage, perPage, perPage, 0>>
               /\ Len(runs[r].allRepositories) = 3 * perPage
               /\ runs[r].inFlight = {})

\* a discovery of exactly 3 * perPage repositories finished
C10_Witness ==
  \E r \in RunIds :
    /\ runs[r].pc = "done"
    /\ remoteSize = 3 * perPage
    /\ Len(availableRepositories) > 0
    /\ ~repoIsLoading

(***************************************************************************)
(* Published list                                                           *)
(***************************************************************************)
\* the owner's whole remote collection without its archived and disabled
\* entries, every entry classified unknown
C11_ExpectedList(owner, size) ==
  LET kept == {i \in 1..size : ~RemoteRepo(owner, i).archived /\ ~RemoteRepo(owner, i).disabled}
      nth[k \in 1..Cardinality(kept)] ==
        CHOOSE i \in kept : Cardinality({j \in kept : j < i}) = k - 1
  IN [k \in 1..Cardinality(kept) |->
        [id |-> RemoteRepo(owner, nth[k]).id, owner |-> owner,
         workflowStatus |-> "unknown", workflowCount |-> 0]]

\* C11: the list a discovery hands to setAvailableRepositories after all its
\* pages succeeded is the remote collection in page order without archived
\* and disabled entries, every entry unknown; the published list has these
\* entries in this order; and an enrichment is launched only in the step
\* that published the list it works on (so no probe precedes the publish).
C11_PublishedList ==
  /\ [](\A r \in RunIds :
          runs[r].pc = "done"
            => runs[r].published = C11_ExpectedList(runs[r].targetOwner, remoteSize))
  /\ [][ /\ \A r \in RunIds :
             (runs[r].pc = "fetching" /\ runs'[r].pc = "done")
               => /\ Len(availableRepositories') = Len(runs'[r].published)
                  /\ \A k \in 1..Len(availableRepositories') :
                       /\ availableRepositories'[k].id = runs'[r].published[k].id
                       /\ availableRepositories'[k].workflowStatus \in {"unknown", "checking"}
         /\ Len(checks') > Len(checks)
             => \E r \in RunIds :
                  /\ runs[r].pc = "fetching" /\ runs'[r].pc = "done"
                  /\ checks'[Len(checks')].repositories = runs'[r].published
                  /\ checks'[Len(checks')].pending
                       \subseteq {availableRepositories'[k].id :
                                     k \in 1..Len(availableRepositories')} ]_vars

\* three pages were fetched, 299 repositories filtered and published
C11_Witness ==
  \E r \in RunIds :
    /\ lastAction = "FetchPageSettled"
    /\ runs[r].pc = "done"
    /\ Len(runs[r].pages) = 3
    /\ Len(availableRepositories) > 2 * perPage
    /\ Len(availableRepositories) < Len(runs[r].allRepositories)
    /\ Len(checks) = 1

\* C12: the step in which a page request of a discovery fails leaves the
\* published list as it was, launches no enrichment, surfaces the error
\* message and ends loading; the discovery takes no further step.
C12_FailedPageAborts ==
  [][ \A r \in RunIds :
        /\ (runs[r].pc = "fetching" /\ runs'[r].pc = "failed")
             => /\ availableRepositories' = availableRepositories
                /\ checks' = checks
                /\ repoError' = runs'[r].failure.message
                /\ repoError' \notin {Null, ""}
                /\ repoIsLoading' = FALSE
                /\ runs'[r].inFlight = {}
        /\ (runs[r].pc = "failed" /\ runs'[r].pc = "failed")
             => runs'[r] = runs[r] ]_vars

\* the second page of a discovery failed while an earlier discovery's list
\* was published
C12_Witness ==
  \E r \in RunIds :
    /\ lastAction = "FetchPageSettled"
    /\ runs[r].pc = "failed"
    /\ Len(runs[r].pages) = 2
    /\ Len(availableRepositories) > 0
    /\ repoError = "GitHub API Error: 403"

(***************************************************************************)
(* Classification                                                           *)
(***************************************************************************)
C13_Advances ==
  {<<"unknown", "checking">>, <<"checking", "has-workflows">>,
   <<"checking", "no-workflows">>, <<"checking", "error">>}

\* C13 as claimed: in every step that does not replace the published list
\* by a freshly fetched one, the list keeps its entries and each entry's
\* classification stays or advances unknown -> checking -> terminal.
C13_MonotoneClassification ==
  [][ lastAction' # "FetchPageSettled"
        => /\ Len(availableRepositories') = Len(availableRepositories)
           /\ \A k \in 1..Len(availableRepositories) :
                /\ availableRepositories'[k].id = availableRepositories[k].id
                /\ \/ availableRepositories'[k].workflowStatus
                        = availableRepositories[k].workflowStatus
                   \/ <<availableRepositories[k].workflowStatus,
                         availableRepositories'[k].workflowStatus>> \in C13_Advances ]_vars

\* C14 as claimed: when an enrichment run that is not the one launched by
\* the latest publishing discovery commits a batch, the published list
\* (which belongs to the later discovery) does not change.
C14_NoStaleWrites ==
  [][ \A c \in 1..Len(checks) :
        (/\ c < Len(checks)
         /\ Len(checks') = Len(checks)
         /\ checks'[c].committed > checks[c].committed)
          => availableRepositories' = availableRepositories ]_vars

(***************************************************************************)
(* Batches                                                                  *)
(***************************************************************************)
\* C15: an enrichment run probes its list in consecutive batches of at most
\* batchSize entries in list order; a batch's probes are issued only when
\* every earlier batch has been committed; the probes in flight belong to
\* the current batch, so there are at most batchSize of them; a finished
\* run has probed every entry.
C15_SequentialBatches ==
  \A c \in 1..Len(checks) :
    LET check == checks[c]
        n == Len(check.repositories)
        slice(k) == {check.repositories[j].id :
                       j \in ((k - 1) * batchSize + 1)..Min(k * batchSize, n)}
        inFlight == check.pending \cup check.fallback
    IN /\ \A k \in 1..Len(check.batches) :
            /\ check.batches[k] = slice(k)
            /\ Cardinality(check.batches[k]) \in 1..batchSize
       /\ Len(check.batches) = check.committed + (IF check.pc = "probing" THEN 1 ELSE 0)
       /\ check.i = (Len(check.batches) - 1) * batchSize
       /\ inFlight \subseteq check.batches[Len(check.batches)]
       /\ Cardinality(inFlight) <= batchSize
       /\ (check.pc # "probing" => inFlight = {})
       /\ (check.pc = "done" => Len(check.batches) * batchSize >= n)
       /\ (check.pc = "pause" => Len(check.batches) * batchSize < n)

\* the second batch (4 of 9 entries) is being probed, one probe has settled
C15_Witness ==
  \E c \in 1..Len(checks) :
    /\ checks[c].pc = "probing"
    /\ checks[c].committed = 1
    /\ Len(checks[c].repositories) = 9
    /\ Cardinality(checks[c].pending \cup checks[c].fallback) = 3

\* C16 as claimed: once a batch is committed, an entry whose activity check
\* failed (neither of its requests succeeded) is classified error.
C16_FailedCheckIsError ==
  \A c \in 1..Len(checks) :
    \A k \in 1..Len(availableRepositories) :
      (/\ checks[c].pc \in {"pause", "done"}
       /\ availableRepositories[k].id \in checks[c].lost
       /\ availableRepositories[k].id \in checks[c].batches[Len(checks[c].batches)])
        => availableRepositories[k].workflowStatus = "error"

\* C17: a toggleRepository call whose argument is classified unknown, checking
\* or error leaves the Selection Set with the same members in the same order,
\* and schedules no save
C17_UnclassifiedToggleIsNoOp ==
  [][(lastAction' = "ToggleRepositoryUnclassified" /\ selOps' # selOps)
       => /\ selectedRepositories' = selectedRepositories
          /\ saves' = saves]_vars

\* an unclassified toggle was ignored while every listed entry was selected,
\* so its argument was a member of the Selection Set
C17_Witness ==
  /\ lastAction = "ToggleRepositoryUnclassified"
  /\ Len(availableRepositories) = 2
  /\ \A k \in 1..Len(availableRepositories) :
       IsSelected(selectedRepositories, availableRepositories[k].id)

\* C18: every member of the Selection Set is classified has-workflows or
\* no-workflows, whichever operation added it (toggleRepository, select-all,
\* the restore from storage)
C18_SelectedAreClassified ==
  \A k \in 1..Len(selectedRepositories) : Classified(selectedRepositories[k])

\* C19: when the selection at shutdown was persisted (the stored entry holds
\* it, or it was empty), the restart restores exactly that selection, in
\* order, each entry with its classification
C19_RestartRestoresSelection ==
  (/\ selLoad.restarted
   /\ lastAction = "LoadStoredData"
   /\ \/ shutdownSelection = <<>>
      \/ /\ Readable(selectionStore)
         /\ selectionStore.encrypted.plaintext = shutdownSelection)
    => selectedRepositories = shutdownSelection

\* the entries of other resources are as they were: status list, error,
\* loading flag, timestamp and position
C20_OthersUnchanged(repositoryId) ==
  /\ Len(repositoryWorkflows') = Len(repositoryWorkflows)
  /\ \A k \in 1..Len(repositoryWorkflows) :
       repositoryWorkflows[k].repository.id # repositoryId
         => repositoryWorkflows'[k] = repositoryWorkflows[k]

\* C20: refreshRepository(id) changes only the entry of resource id. When it
\* starts, that entry is marked loading; on success the entry's status list
\* is the latest run per workflow of the fetched runs, its error is cleared
\* and its timestamp is the time of the update; on failure the entry holds
\* the error's message. Every other entry is unchanged by each of these steps.
C20_RefreshRepositoryFrame ==
  [][\A c \in 1..Len(refreshCalls') :
       LET call == refreshCalls'[c]
           started == c > Len(refreshCalls)
           settled == c <= Len(refreshCalls) /\ refreshCalls[c].pc = "fetching"
                        /\ call.pc = "done"
           id == IF started THEN call.repositoryId ELSE refreshCalls[c].repositoryId
           fetched == makeRequest(remote[id].response)
       IN (started \/ settled) =>
            /\ C20_OthersUnchanged(id)
            /\ \A k \in 1..Len(repositoryWorkflows) :
                 repositoryWorkflows[k].repository.id = id =>
                   LET before == repositoryWorkflows[k]
                       after == repositoryWorkflows'[k]
                   IN /\ after.repository = before.repository
                      /\ started => after = [before EXCEPT !.isLoading = TRUE, !.error = Null]
                      /\ (settled /\ fetched.ok) =>
                           /\ after.workflows =
                                getLatestWorkflowStatuses(remote[id].workflowRuns)
                           /\ after.error = Null
                           /\ after.lastUpdated = now
                           /\ after.lastUpdated >= before.lastUpdated
                           /\ ~after.isLoading
                      /\ (settled /\ ~fetched.ok) =>
                           /\ after.error = fetched.message
                           /\ after.error # Null
                           /\ after.lastUpdated = before.lastUpdated
                           /\ ~after.isLoading]_vars

\* a refreshRepository call has failed after another one succeeded for a
\* different resource, whose entry holds a status list and the later timestamp
C20_Witness ==
  /\ lastAction = "RefreshRepositoryFailed"
  /\ \A c \in 1..Len(refreshCalls) : refreshCalls[c].pc = "done"
  /\ Len(refreshCalls) = 2
  /\ Len(repositoryWorkflows) = 2
  /\ \E k, j \in 1..Len(repositoryWorkflows) :
       /\ repositoryWorkflows[k].error # Null
       /\ repositoryWorkflows[k].workflows = <<>>
       /\ repositoryWorkflows[k].lastUpdated > 0
       /\ repositoryWorkflows[j].repository.id # repositoryWorkflows[k].repository.id
       /\ repositoryWorkflows[j].workflows # <<>>
       /\ repositoryWorkflows[j].error = Null
       /\ repositoryWorkflows[j].lastUpdated > repositoryWorkflows[k].lastUpdated

\* C21: refreshWorkflows never rejects. When a call resolves, the global
\* error is still unset, every entry the call covers whose request failed
\* holds that request's error, every other entry it covers holds the latest
\* run per workflow of the runs fetched for it and no error, and entries the
\* call does not cover are unchanged.
C21_RefreshWorkflowsIsolatesFailures ==
  [][\A g \in 1..Len(refreshAllCalls) :
       (refreshAllCalls[g].pc = "fetching" /\ refreshAllCalls'[g].pc = "done") =>
         /\ wfError' = Null
         /\ Len(repositoryWorkflows') = Len(repositoryWorkflows)
         /\ \A k \in 1..Len(repositoryWorkflows) :
              LET id == repositoryWorkflows[k].repository.id
                  after == repositoryWorkflows'[k]
                  fetched == makeRequest(remote[id].response)
              IN IF id \notin refreshAllCalls[g].ids
                   THEN after = repositoryWorkflows[k]
                   ELSE IF fetched.ok
                     THEN /\ after.error = Null
                          /\ after.workflows =
                               getLatestWorkflowStatuses(remote[id].workflowRuns)
                     ELSE /\ after.error = fetched.message
                          /\ after.error # Null]_vars

\* a refreshWorkflows call has resolved with one entry holding an error and
\* another one holding a status list and no error
C21_Witness ==
  /\ lastAction = "RefreshWorkflowsSettled"
  /\ wfError = Null
  /\ \E k, j \in 1..Len(repositoryWorkflows) :
       /\ repositoryWorkflows[k].error # Null
       /\ repositoryWorkflows[k].lastUpdated = lastGlobalUpdate
       /\ repositoryWorkflows[j].error = Null
       /\ repositoryWorkflows[j].workflows # <<>>
       /\ repositoryWorkflows[j].lastUpdated = lastGlobalUpdate

\* C22: once a refreshWorkflows call has settled for every watched resource,
\* the initial-load trigger does not call refreshWorkflows again: the step at
\* which a call resolves starts no new call, whatever the results were
C22_InitialLoadFiresOnce ==
  [][\A g \in 1..Len(refreshAllCalls) :
       (refreshAllCalls[g].pc = "fetching" /\ refreshAllCalls'[g].pc = "done")
         => Len(refreshAllCalls') = Len(refreshAllCalls)]_vars

\* C23: no two refreshWorkflows calls have a request for the same resource
\* in flight at the same time
C23_OneFetchPerResource ==
  \A id \in WatchedIds :
    Cardinality({g \in 1..Len(refreshAllCalls) :
                   /\ refreshAllCalls[g].pc = "fetching"
                   /\ id \in refreshAllCalls[g].pending}) <= 1

\* C24: at most one refresh timer is armed, and it is armed with the current
\* interval setting (in milliseconds); a timer is armed while the provider is
\* mounted over a non-empty watched set with a positive interval, and none is
\* armed while the watched set is empty or after the provider is unmounted
C24_OneRefreshTimer ==
  /\ Len(timers) <= 1
  /\ \A k \in 1..Len(timers) : timers[k] = refreshInterval * 1000
  /\ (mounted /\ Len(repositoryWorkflows) > 0 /\ refreshInterval > 0) => Len(timers) = 1
  /\ (Len(repositoryWorkflows) = 0 \/ ~mounted) => timers = <<>>

\* the interval was changed while a timer was armed, and the one timer armed
\* now has the new interval
C24_Witness ==
  /\ lastAction = "SetRefreshInterval"
  /\ refreshInterval # DefaultRefreshInterval
  /\ Len(repositoryWorkflows) > 0
  /\ timers = <<refreshInterval * 1000>>

\* C25: the global last-updated stamp changes only at the step at which a
\* refreshWorkflows call resolves, that is when the last pending request of
\* the call settles and the results are merged (every covered entry carries
\* the same time); every call that resolves stamps it, and no step of
\* refreshRepository changes it
C25_GlobalStampAfterMerge ==
  [][LET resolving == {g \in 1..Len(refreshAllCalls) :
                         /\ refreshAllCalls[g].pc = "fetching"
                         /\ refreshAllCalls'[g].pc = "done"}
     IN /\ lastGlobalUpdate' # lastGlobalUpdate =>
             \E g \in resolving :
               /\ Cardinality(refreshAllCalls[g].pending) = 1
               /\ lastGlobalUpdate' = now
               /\ \A k \in 1..Len(repositoryWorkflows') :
                    repositoryWorkflows'[k].repository.id \in refreshAllCalls[g].ids
                      => repositoryWorkflows'[k].lastUpdated = lastGlobalUpdate'
        /\ resolving # {} => lastGlobalUpdate' = now /\ lastGlobalUpdate' > lastGlobalUpdate
        /\ refreshCalls' # refreshCalls => lastGlobalUpdate' = lastGlobalUpdate]_vars

\* a refreshWorkflows call has resolved after a refreshRepository call did:
\* the global stamp is later than the first call's start and is the time
\* every entry carries
C25_Witness ==
  /\ lastAction = "RefreshWorkflowsSettled"
  /\ lastGlobalUpdate > 1
  /\ \E c \in 1..Len(refreshCalls) : refreshCalls[c].pc = "done"
  /\ Len(repositoryWorkflows) = 2
  /\ \A k \in 1..Len(repositoryWorkflows) :
       repositoryWorkflows[k].lastUpdated = lastGlobalUpdate

\* C26: a resolved getLatestWorkflowStatuses call returns a map that has an
\* entry for a workflow exactly when the fetched list has a run of that
\* workflow, and the entry is a run of the list, of that workflow, created no
\* earlier than any other run of that workflow in the list
C26_LatestPerWorkflow ==
  (clientCall.op = "getLatestWorkflowStatuses" /\ clientCall.pc = "resolved") =>
    LET workflowRuns == remote[ClientRepo].workflowRuns
        fetched == {workflowRuns[k] : k \in 1..Len(workflowRuns)}
    IN \A w \in WorkflowIds :
         LET ofWorkflow == {run \in fetched : run.workflow_id = w}
         IN IF ofWorkflow = {} THEN clientCall.statuses[w] = NoRun
            ELSE /\ clientCall.statuses[w] \in ofWorkflow
                 /\ \A run \in ofWorkflow :
                      run.created_at <= clientCall.statuses[w].created_at

\* the call has resolved over a list in which a workflow's later run follows
\* an earlier one of the same workflow and another workflow has a run too
C26_Witness ==
  /\ clientCall.op = "getLatestWorkflowStatuses"
  /\ clientCall.pc = "resolved"
  /\ LET workflowRuns == remote[ClientRepo].workflowRuns
     IN /\ Len(workflowRuns) = 3
        /\ \E i, j \in 1..3 :
             /\ i < j
             /\ workflowRuns[i].workflow_id = workflowRuns[j].workflow_id
             /\ workflowRuns[i].created_at < workflowRuns[j].created_at
             /\ clientCall.statuses[workflowRuns[j].workflow_id] = workflowRuns[j]
        /\ \A w \in WorkflowIds : clientCall.statuses[w] # NoRun

\* C27: a hasRecentWorkflowActivity call never rejects; when its runs request
\* failed, it resolves, once the workflows request has settled, with
\* hasActivity telling whether the listed workflows are not empty and
\* totalRuns 0, and with hasActivity false and totalRuns 0 when the workflows
\* request failed too
C27_ActivityNeverRaises ==
  clientCall.op = "hasRecentWorkflowActivity" =>
    /\ clientCall.pc # "rejected"
    /\ clientCall.thrown = NoError
    /\ (clientCall.pc = "resolved" /\ ~makeRequest(remote[ClientRepo].response).ok) =>
         IF makeRequest(clientCall.response).ok
           THEN clientCall.activity =
                  [hasActivity |-> RemoteWorkflowCount(ClientRepo) > 0, totalRuns |-> 0]
           ELSE clientCall.activity = [hasActivity |-> FALSE, totalRuns |-> 0]

\* both requests of a call about a repository that has workflows have failed,
\* the runs request with an HTTP status, and the call has resolved
C27_Witness ==
  /\ clientCall.op = "hasRecentWorkflowActivity"
  /\ clientCall.pc = "resolved"
  /\ lastAction = "HasRecentWorkflowActivityWorkflowsSettled"
  /\ remote[ClientRepo].response.kind = "http"
  /\ clientCall.response.kind = "network"
  /\ RemoteWorkflowCount(ClientRepo) > 0
  /\ clientCall.activity = [hasActivity |-> FALSE, totalRuns |-> 0]

\* the methods that await makeRequest without a handler
C28_PassingOps == {"validateToken", "getLatestWorkflowStatuses"}

\* a settled call of such a method returned no data
C28_NoData == clientCall.user = Null /\ clientCall.statuses = NoStatuses

\* C28 as stated: a response with a non-success status rejects the call with
\* a GitHubApiError of that status whose message is the message of the parsed
\* body, or "API Error: <status>" when the body cannot be parsed; a transport
\* failure rejects it with another error; no data is returned
C28_GenericMessage ==
  (clientCall.op \in C28_PassingOps /\ clientCall.pc \in {"resolved", "rejected"}) =>
    LET response == clientCall.response
    IN /\ response.kind = "http" =>
            /\ clientCall.pc = "rejected"
            /\ clientCall.thrown.name = "GitHubApiError"
            /\ clientCall.thrown.status = response.status
            /\ clientCall.thrown.message =
                 IF response.json THEN response.message
                 ELSE "API Error: " \o ToString(response.status)
            /\ C28_NoData
       /\ response.kind = "network" =>
            /\ clientCall.pc = "rejected"
            /\ clientCall.thrown.name # "GitHubApiError"
            /\ C28_NoData

\* C28: a response with a non-success status rejects the call with a
\* GitHubApiError of that status whose message is the message member of the
\* parsed body when the body parses and has a non-empty one, and
\* "GitHub API Error: <status>" otherwise; a transport failure rejects it
\* with fetch's own error, which is not a GitHubApiError; no data is returned
C28_GatewayErrors ==
  (clientCall.op \in C28_PassingOps /\ clientCall.pc \in {"resolved", "rejected"}) =>
    LET response == clientCall.response
    IN /\ response.kind = "http" =>
            /\ clientCall.pc = "rejected"
            /\ clientCall.thrown.name = "GitHubApiError"
            /\ clientCall.thrown.status = response.status
            /\ clientCall.thrown.message =
                 IF response.json /\ response.message # "" THEN response.message
                 ELSE "GitHub API Error: " \o ToString(response.status)
            /\ C28_NoData
       /\ response.kind = "network" =>
            /\ clientCall.pc = "rejected"
            /\ clientCall.thrown.name # "GitHubApiError"
            /\ clientCall.thrown.message = response.message
            /\ C28_NoData

\* validateToken has rejected on a 500 response whose body is not JSON
C28_Witness ==
  /\ clientCall.op = "validateToken"
  /\ clientCall.pc = "rejected"
  /\ clientCall.response = HttpErrorUnparsable(500)
  /\ clientCall.thrown.message = "GitHub API Error: 500"

\* C29: the entry under the credential key is never written as anything but
\* an envelope {encrypted, salt, iv, timestamp} whose ciphertext is made with
\* the key derived from this device's password and the envelope's salt and
\* iv; every step that changes the entry removes it or writes such an
\* envelope, and an entry that is absent or an envelope stays so
C29_CredentialEncryptedAtRest ==
  [][LET before == localStorage[GITHUB_TOKEN]
         after == localStorage'[GITHUB_TOKEN]
     IN /\ before.kind \in {"absent", "envelope"} => after.kind \in {"absent", "envelope"}
        /\ after # before =>
             \/ after = Absent
             \/ /\ after.kind = "envelope"
                /\ DOMAIN after = {"kind", "encrypted", "salt", "iv", "timestamp"}
                /\ after.encrypted.key =
                     deriveKey(getDevicePassword(ThisDevice), after.salt)
                /\ after.encrypted.iv = after.iv]_vars

\* the start-up load found an unreadable entry under the credential key and
\* removed it; a later setToken has written its envelope
C29_Witness ==
  /\ lastAction = "SetTokenStored"
  /\ loadCall.entry = Garbage
  /\ localStorage[GITHUB_TOKEN].kind = "envelope"
  /\ localStorage[GITHUB_TOKEN].encrypted.plaintext = token
  /\ token \in Tokens

\* C30: a getSecureItem(k) that has resolved while k holds what a resolved
\* setSecureItem(k, s) put, with no write or removal on k since, has
\* returned s
C30_RoundTrip ==
  (storageCall.op = "getSecureItem" /\ lastPut[storageCall.key].put) =>
    storageCall.result = lastPut[storageCall.key].value

\* the entries getSecureItem cannot read
C31_Unreadable(entry) ==
  \/ entry.kind \in {"empty", "garbage", "malformed"}
  \/ /\ entry.kind = "envelope"
     /\ decrypt(deriveKey(getDevicePassword(ThisDevice), entry.salt), entry.iv,
                entry.encrypted) = Null

\* C31: a getSecureItem call on a device with crypto and localStorage
\* resolves; over an absent entry it resolves to null and leaves the store as
\* it is; over an entry that it cannot parse, that lacks an array or that does
\* not decrypt it resolves to null and the entry is absent afterwards
C31_GetNeverRejects ==
  [][(lastAction' = "GetSecureItemCall" /\ secureStorageAvailable) =>
       LET key == storageCall'.key
           entry == localStorage[key]
       IN /\ storageCall'.outcome = "resolved"
          /\ entry = Absent => storageCall'.result = Null /\ localStorage' = localStorage
          /\ C31_Unreadable(entry) =>
               /\ storageCall'.result = Null
               /\ localStorage' = [localStorage EXCEPT ![key] = Absent]]_vars

\* C32: a setSecureItem call that fails, because crypto or localStorage is
\* missing or because a step throws, rejects with a message that starts with
\* "Failed to securely store item:" and leaves the entry under the key as it
\* was
C32_FailedPutKeepsEntry ==
  [][(lastAction' = "SetSecureItemCall" /\ storageCall'.outcome = "rejected") =>
       LET prefix == "Failed to securely store item:"
       IN /\ Len(storageCall'.message) >= Len(prefix)
          /\ SubSeq(storageCall'.message, 1, Len(prefix)) = prefix
          /\ localStorage'[storageCall'.key] = localStorage[storageCall'.key]
          /\ localStorage' = localStorage]_vars

\* a put over an envelope written by an earlier put has failed in a crypto
\* step: the earlier envelope is still there
C32_Witness ==
  /\ lastAction = "SetSecureItemCall"
  /\ storageCall.outcome = "rejected"
  /\ storageCall.message = "Failed to securely store item: OperationError"
  /\ secureStorageAvailable
  /\ lastPut[storageCall.key].put
  /\ lastPut[storageCall.key].value # storageCall.value
  /\ localStorage[storageCall.key].kind = "envelope"

C34_ScopeMatchesOwner ==
  \A r \in RunIds :
    runs[r].pc # "idle" =>
      /\ runs[r].targetOwner \in Logins => runs[r].isUser
      /\ runs[r].targetOwner = OrgOwner => ~runs[r].isUser

\* C35: a state in which no credential is held holds no identity and has
\* no entry persisted under the identity key; no step of setToken, removeToken
\* or the start-up load, in any interleaving, leaves such a state for one
\* that holds an identity without a credential
C35_Holds ==
  token = Null => /\ userId = Null
                  /\ localStorage[GITHUB_USER_ID] = Absent

C35_NoIdentityWithoutToken == [][C35_Holds => C35_Holds']_vars

\* C36: once setToken has resolved, the identity in memory and the identity
\* persisted are the login of the credential just stored, or none
C36_IdentityOfNewToken ==
  (setCall.pc = "idle" /\ setCall.outcome = "resolved") =>
    /\ userId \in {Null, LoginOf(setCall.newToken)}
    /\ getSecureItem(localStorage[GITHUB_USER_ID]) \in {Null, LoginOf(setCall.newToken)}

\* C37: once removeToken has completed (no credential is held), no
\* discovery, enrichment run or fallback started before issues a further
\* request: no run requests another page, no probe batch is issued and no
\* probe falls back to a second request
C37_NoRequestAfterRemoval ==
  [][token = Null =>
       /\ \A r \in RunIds : runs'[r].pages = runs[r].pages
       /\ Len(checks') = Len(checks)
       /\ \A c \in 1..Len(checks) :
            /\ checks'[c].batches = checks[c].batches
            /\ checks'[c].fallback \subseteq checks[c].fallback]_vars

\* C38: at most one discovery is in flight: the discoveries fetching pages
\* and the enrichment runs not yet finished number one at most, so a scope
\* change starts one run and no run starts while another is under way
C38_AtMostOneDiscovery ==
  Cardinality({r \in DOMAIN runs : runs[r].pc = "fetching"})
    + Cardinality({c \in 1..Len(checks) : checks[c].pc # "done"}) <= 1

C39_Terminal == {"has-workflows", "no-workflows", "error"}

C39_Published == \E r \in RunIds : runs[r].pc = "done" /\ Len(runs[r].published) > 0

C39_Settled ==
  /\ \A c \in 1..Len(checks) : checks[c].pc = "done"
  /\ \A k \in 1..Len(availableRepositories) :
       availableRepositories[k].workflowStatus \in C39_Terminal

\* C39: with no further discovery or scope change and every probe settling,
\* once a discovery has published its list the enrichment run ends and every
\* entry of the list has a terminal classification (has-workflows,
\* no-workflows or error); none stays unknown or checking
C39_EnrichmentTerminates == C39_Published ~> C39_Settled

C39_Witness ==
  /\ C39_Published
  /\ C39_Settled
  /\ Len(checks) = 1
  /\ Len(checks[1].batches) >= 2
  /\ availableRepositories # <<>>
  /\ \E r \in RunIds : Len(availableRepositories) = Len(runs[r].published)

====
